---- MODULE Spec2Model ----
(***************************************************************************)
(* Model of the BAML markup parser (baml_core/src/parser.rs and            *)
(* parser_util.rs).  Text is a sequence of one-character strings.          *)
(***************************************************************************)
EXTENDS Integers, Sequences, FiniteSets, TLC

VARIABLES
    pc,         \* position of the running call
    text,       \* the String handed to parse / preprocess
    meta,       \* metadata map built by preprocess, a set of <<key, value>>
    cont,       \* body returned by preprocess
    desugared,  \* output of desugar_slfcalls
    iter,       \* items containerize has not consumed yet
    stack,      \* containerize's stack of open frames
    conts,      \* Vec<Containerized<String>> returned by parse_step1
    result,     \* what parse returns (or the panic that ended it)
    md,         \* what get_metadata returns for the preprocessed body
    tstate,     \* position of TemplateEngine::run: the pass it is in
    template,   \* TemplateEngine.template
    engine_vars,\* TemplateEngine.vars, a set of <<name, value>>
    dir,        \* what read_dir and get_vars_from_file give: the entries
    tpl_res,    \* res, the String the passes of process rewrite
    tick,       \* parity of the loop iterations process has made
    ast_nodes,  \* the nodes of the AST compile_ast walks
    handled,    \* how many of them handle_node has been called for
    calls,      \* the calls of emit_text and run_command made so far
    rendered,   \* what handle_node returned, in order
    split_in,   \* the items handed to the splitter
    split_keep, \* its keep_sep
    split_max,  \* its max_len, 0 for None
    split_out   \* the sub-sequences it has returned, None before the call

parseVars == <<pc, text, meta, cont, desugared, iter, stack, conts, result, md>>
tplVars == <<tstate, template, engine_vars, dir, tpl_res, tick>>
beVars == <<ast_nodes, handled, calls, rendered>>
splitVars == <<split_in, split_keep, split_max, split_out>>

vars == <<parseVars, tplVars, beVars, splitVars>>

-----------------------------------------------------------------------------
(* Characters *)

BS == "\\"
LF == "\n"
TAB == "\t"

IsWhitespace(c) == c \in {" ", TAB, LF}

-----------------------------------------------------------------------------
(* Bounds of the explored inputs *)

MaxPreLen == 5
MaxBrLen == 6
MaxPlainLen == 5
MaxArgs == 3
MaxAttrs == 2
MaxDepth == 2
MaxSegLen == 4

-----------------------------------------------------------------------------
(* std string helpers, as the parser uses them *)

SeqsUpTo(S, n) == UNION {[1..k -> S] : k \in 0..n}

RECURSIVE Concat(_)
Concat(ss) == IF ss = <<>> THEN <<>> ELSE Head(ss) \o Concat(Tail(ss))

RECURSIVE JoinWith(_, _)
JoinWith(ss, sep) ==
    IF ss = <<>> THEN <<>>
    ELSE IF Len(ss) = 1 THEN ss[1]
    ELSE ss[1] \o sep \o JoinWith(Tail(ss), sep)

Contains(s, ch) == \E i \in 1..Len(s) : s[i] = ch

StartsWith(s, ch) == Len(s) > 0 /\ s[1] = ch

EndsWith(s, ch) == Len(s) > 0 /\ s[Len(s)] = ch

\* position of the first ch in s, 0 when there is none
IndexOf(s, ch) ==
    IF Contains(s, ch)
    THEN CHOOSE i \in 1..Len(s) : s[i] = ch /\ \A j \in 1..(i - 1) : s[j] # ch
    ELSE 0

\* str::split(ch): always at least one piece, empty pieces kept
RECURSIVE StrSplit(_, _)
StrSplit(s, ch) ==
    LET i == IndexOf(s, ch)
    IN  IF i = 0 THEN <<s>>
        ELSE <<SubSeq(s, 1, i - 1)>> \o StrSplit(SubSeq(s, i + 1, Len(s)), ch)

\* str::splitn(2, ch)
StrSplitn2(s, ch) ==
    LET i == IndexOf(s, ch)
    IN  IF i = 0 THEN <<s>>
        ELSE <<SubSeq(s, 1, i - 1), SubSeq(s, i + 1, Len(s))>>

\* str::splitn(2, char::is_whitespace)
StrSplitn2Whitespace(s) ==
    IF \E i \in 1..Len(s) : IsWhitespace(s[i])
    THEN LET i == CHOOSE k \in 1..Len(s) :
                      IsWhitespace(s[k]) /\ \A j \in 1..(k - 1) : ~IsWhitespace(s[j])
         IN  <<SubSeq(s, 1, i - 1), SubSeq(s, i + 1, Len(s))>>
    ELSE <<s>>

RECURSIVE TrimStart(_)
TrimStart(s) ==
    IF s # <<>> /\ IsWhitespace(Head(s)) THEN TrimStart(Tail(s)) ELSE s

RECURSIVE TrimEnd(_)
TrimEnd(s) ==
    IF s # <<>> /\ IsWhitespace(s[Len(s)]) THEN TrimEnd(SubSeq(s, 1, Len(s) - 1)) ELSE s

Trim(s) == TrimEnd(TrimStart(s))

\* HashMap::insert on a map kept as a set of <<key, value>> pairs
MapInsert(m, k, v) == {p \in m : p[1] # k} \cup {<<k, v>>}

-----------------------------------------------------------------------------
(* pipeline::preprocess *)

\* s.replace("\\\n", ""): one left-to-right pass over non-overlapping matches
RECURSIVE ReplaceEscapedLF(_)
ReplaceEscapedLF(s) ==
    IF Len(s) < 2 THEN s
    ELSE IF s[1] = BS /\ s[2] = LF THEN ReplaceEscapedLF(SubSeq(s, 3, Len(s)))
    ELSE <<s[1]>> \o ReplaceEscapedLF(Tail(s))

\* MetadataOfLine slicing the key from the start of the line (line[..i])
MetadataOfLineKeyFromStart(line) ==
    LET ws == {k \in 1..Len(line) : IsWhitespace(line[k])}
    IN  IF ws = {} THEN [panic |-> TRUE, key |-> <<>>, value |-> <<>>]
        ELSE LET i  == CHOOSE k \in ws : \A j \in ws : k <= j
                 nw == {k \in (i + 1)..Len(line) : ~IsWhitespace(line[k])}
             IN  IF nw = {} THEN [panic |-> TRUE, key |-> <<>>, value |-> <<>>]
                 ELSE LET i1 == CHOOSE k \in nw : \A j \in nw : k <= j
                      IN  [panic |-> FALSE,
                           key   |-> SubSeq(line, 1, i - 1),
                           value |-> SubSeq(line, i1, Len(line))]

\* the metadata branch: the index of the first whitespace and of the first
\* non-whitespace after it; a missing one is the expect() panic
MetadataOfLine(line) ==
    LET ws == {k \in 1..Len(line) : IsWhitespace(line[k])}
    IN  IF ws = {} THEN [panic |-> TRUE, key |-> <<>>, value |-> <<>>]
        ELSE LET i  == CHOOSE k \in ws : \A j \in ws : k <= j
                 nw == {k \in (i + 1)..Len(line) : ~IsWhitespace(line[k])}
             IN  IF nw = {} THEN [panic |-> TRUE, key |-> <<>>, value |-> <<>>]
                 ELSE LET i1 == CHOOSE k \in nw : \A j \in nw : k <= j
                      IN  [panic |-> FALSE,
                           key   |-> SubSeq(line, 2, i - 1),
                           value |-> SubSeq(line, i1, Len(line))]

\* split('#').take_while(|sl| replace(&mut was_escaped, sl.ends_with('\\')))
RECURSIVE TakeWhileEscaped(_, _)
TakeWhileEscaped(segs, was_escaped) ==
    IF segs = <<>> \/ ~was_escaped THEN <<>>
    ELSE <<Head(segs)>> \o TakeWhileEscaped(Tail(segs), EndsWith(Head(segs), BS))

\* StripComment keeping the text behind the first # instead of before it
StripCommentKeepingTail(line) == Concat(Tail(StrSplit(line, "#")))

\* the comment branch: the kept segments collected into one String
StripComment(line) == Concat(TakeWhileEscaped(StrSplit(line, "#"), TRUE))

RECURSIVE PreprocessLines(_, _, _)
PreprocessLines(lines, m, res) ==
    IF lines = <<>> THEN [panic |-> FALSE, meta |-> m, res |-> res]
    ELSE LET line == Head(lines)
         IN  IF StartsWith(line, "!")
             THEN LET kv == MetadataOfLine(line)
                  IN  IF kv.panic THEN [panic |-> TRUE, meta |-> {}, res |-> <<>>]
                      ELSE PreprocessLines(Tail(lines), MapInsert(m, kv.key, kv.value), res)
             ELSE IF Contains(line, "#")
             THEN LET line_iter == StripComment(line)
                  IN  IF line_iter # <<>>
                      THEN PreprocessLines(Tail(lines), m, Append(res, line_iter))
                      ELSE PreprocessLines(Tail(lines), m, res)
             ELSE PreprocessLines(Tail(lines), m, Append(res, line))

preprocess(s) ==
    LET r == PreprocessLines(StrSplit(ReplaceEscapedLF(s), LF), {}, <<>>)
    IN  [panic |-> r.panic, meta |-> r.meta, body |-> JoinWith(r.res, <<LF>>)]

\* parser::get_metadata
get_metadata(s) == LET r == preprocess(s) IN [panic |-> r.panic, meta |-> r.meta]

-----------------------------------------------------------------------------
(* pipeline::desugar_slfcalls *)

DesugarLine(line) ==
    IF StartsWith(line, ".") THEN <<"[">> \o Tail(line) \o <<"]">> ELSE line

desugar_slfcalls(s) ==
    LET lines == StrSplit(s, LF)
    IN  JoinWith([k \in 1..Len(lines) |-> DesugarLine(lines[k])], <<LF>>)

-----------------------------------------------------------------------------
(* The escape-aware scanner (AutoEscape) and its inverse *)

Item(esc, c) == [esc |-> esc, c |-> c]

\* a scanner that flags the character behind an indicator and keeps the
\* indicator as an item of its own
RECURSIVE auto_escape_keeping_indicator(_, _)
auto_escape_keeping_indicator(s, indicator) ==
    IF s = <<>> THEN <<>>
    ELSE IF s[1] = indicator /\ Len(s) >= 2
         THEN <<Item(FALSE, s[1]), Item(TRUE, s[2])>>
              \o auto_escape_keeping_indicator(SubSeq(s, 3, Len(s)), indicator)
         ELSE <<Item(FALSE, s[1])>> \o auto_escape_keeping_indicator(Tail(s), indicator)

\* AutoEscape::next, run to the end of the input
RECURSIVE auto_escape(_, _)
auto_escape(s, indicator) ==
    IF s = <<>> THEN <<>>
    ELSE IF s[1] = indicator
         THEN IF Len(s) >= 2
              THEN <<Item(TRUE, s[2])>> \o auto_escape(SubSeq(s, 3, Len(s)), indicator)
              ELSE <<Item(FALSE, s[1])>>
         ELSE <<Item(FALSE, s[1])>> \o auto_escape(Tail(s), indicator)

\* reverse_auto_escape that forgets the backslash of an escaped character
reverse_auto_escape_bare(items) == [k \in 1..Len(items) |-> items[k].c]

\* |(esc, c)| if esc { vec!['\\', c] } else { vec![c] }, collected
RECURSIVE reverse_auto_escape(_)
reverse_auto_escape(items) ==
    IF items = <<>> THEN <<>>
    ELSE (IF Head(items).esc THEN <<BS, Head(items).c>> ELSE <<Head(items).c>>)
         \o reverse_auto_escape(Tail(items))

\* |(_, c)| c, collected
DropEscapes(items) == [k \in 1..Len(items) |-> items[k].c]

-----------------------------------------------------------------------------
(* Containerized<T> *)

Free(t) == [t |-> "Free", v |-> t]
Contained(v) == [t |-> "Contained", v |-> v]

IsLeft(it) == ~it.esc /\ it.c = "["
IsRight(it) == ~it.esc /\ it.c = "]"

\* Containerized::map with parse_step1's closure
RECURSIVE MapToString(_)
MapToString(v) ==
    [k \in 1..Len(v) |->
        IF v[k].t = "Free" THEN Free(reverse_auto_escape(v[k].v))
        ELSE Contained(MapToString(v[k].v))]

\* Containerized::join: a Vec<T> of the pieces
RECURSIVE join(_, _, _)
RECURSIVE JoinAll(_, _, _)
join(c, left, right) ==
    IF c.t = "Free" THEN <<c.v>>
    ELSE <<left>> \o JoinAll(c.v, left, right) \o <<right>>

JoinAll(v, left, right) ==
    IF v = <<>> THEN <<>>
    ELSE join(Head(v), left, right) \o JoinAll(Tail(v), left, right)

\* PushFree that opens a Free run for every item
PushFreeApart(frame, t) == Append(frame, Free(<<t>>))

\* one turn of containerize's loop for an item that is no delimiter
PushFree(frame, t) ==
    IF frame # <<>> /\ frame[Len(frame)].t = "Free"
    THEN [frame EXCEPT ![Len(frame)] = Free(Append(frame[Len(frame)].v, t))]
    ELSE Append(frame, Free(<<t>>))

-----------------------------------------------------------------------------
(* SplitIter: the splitter behind split, splitn and str_split_keep_sep *)

\* position of the first separator, Len + 1 when there is none
FirstSep(seps) ==
    IF \E i \in 1..Len(seps) : seps[i]
    THEN CHOOSE i \in 1..Len(seps) : seps[i] /\ \A j \in 1..(i - 1) : ~seps[j]
    ELSE Len(seps) + 1

\* a splitter that never cuts
SplitIterWhole(items, seps, max_len, keep_sep, curr_len, handle_sep) ==
    IF items = <<>> THEN <<>> ELSE <<items>>

\* SplitIter::next until it returns None.  seps[i] is is_sep(items[i]);
\* max_len = 0 stands for None (curr_len starts at 1).
RECURSIVE SplitIter(_, _, _, _, _, _)
SplitIter(items, seps, max_len, keep_sep, curr_len, handle_sep) ==
    IF items = <<>> THEN <<>>
    ELSE IF handle_sep
    THEN <<SubSeq(items, 1, 1)>>
         \o SplitIter(Tail(items), Tail(seps), max_len, keep_sep, curr_len, FALSE)
    ELSE IF max_len = curr_len THEN <<items>>
    ELSE LET k == FirstSep(seps)
             n == Len(items)
         IN  IF keep_sep
             THEN <<SubSeq(items, 1, k - 1)>>
                  \o SplitIter(SubSeq(items, k, n), SubSeq(seps, k, n),
                               max_len, keep_sep, curr_len + 1, TRUE)
             ELSE <<SubSeq(items, 1, k - 1)>>
                  \o SplitIter(SubSeq(items, k + 1, n), SubSeq(seps, k + 1, n),
                               max_len, keep_sep, curr_len + 1, FALSE)

\* s.chars().split(is_sep, true), each piece collected into a String
str_split_keep_sep(s, sep) ==
    SplitIter(s, [k \in 1..Len(s) |-> s[k] = sep], 0, TRUE, 1, FALSE)

\* split_unescaped_string(s, sep, max_len, false, keep_backslash)
split_unescaped_string(s, sep, max_len, keep_backslash) ==
    LET items  == auto_escape(s, BS)
        pieces == SplitIter(items,
                            [k \in 1..Len(items) |-> ~items[k].esc /\ items[k].c = sep],
                            max_len, FALSE, 1, FALSE)
    IN  [k \in 1..Len(pieces) |->
            IF keep_backslash THEN reverse_auto_escape(pieces[k])
            ELSE DropEscapes(pieces[k])]

-----------------------------------------------------------------------------
(* parse_attrs *)

AttrPair(sl) ==
    LET i == IndexOf(sl, "=")
    IN  <<Trim(SubSeq(sl, 1, i - 1)), TrimStart(SubSeq(sl, i + 1, Len(sl)))>>

\* parse_attrs collecting into a map: a repeated key keeps its last entry
parse_attrs_unique_keys(s) ==
    LET pieces == split_unescaped_string(s, ";", 0, FALSE)
        kept   == SelectSeq(pieces, LAMBDA sl : Contains(sl, "="))
        pairs  == [k \in 1..Len(kept) |-> AttrPair(kept[k])]
        last   == {k \in 1..Len(pairs) :
                      \A j \in (k + 1)..Len(pairs) : pairs[j][1] # pairs[k][1]}
        Pick(k) == IF k \in last THEN <<pairs[k]>> ELSE <<>>
    IN  Concat([k \in 1..Len(pairs) |-> Pick(k)])

parse_attrs(s) ==
    LET pieces == split_unescaped_string(s, ";", 0, FALSE)
        kept   == SelectSeq(pieces, LAMBDA sl : Contains(sl, "="))
    IN  [k \in 1..Len(kept) |-> AttrPair(kept[k])]

-----------------------------------------------------------------------------
(* parse_command *)

Err(e) == [ok |-> FALSE, err |-> e]
OkNodes(ns) == [ok |-> TRUE, nodes |-> ns]

Text(s) == [type |-> "Text", s |-> s]
CommandCall(backend, cmd, attributes, arguments) ==
    [type |-> "CommandCall", backend |-> backend, cmd |-> cmd,
     attributes |-> attributes, arguments |-> arguments]

\* Option<T> is a sequence of at most one element
None == <<>>
Some(x) == <<x>>

\* the inner for loop over s.char_indices(): where the '}' closing the
\* block stands (at = 0: not in s) and the level after s
RECURSIVE ScanAttrChars(_, _, _)
ScanAttrChars(s, i, lvl) ==
    IF i > Len(s) THEN [at |-> 0, lvl |-> lvl]
    ELSE IF s[i] = "{" THEN ScanAttrChars(s, i + 1, lvl + 1)
    ELSE IF s[i] = "}" /\ lvl = 1 THEN [at |-> i, lvl |-> lvl]
    ELSE IF s[i] = "}" THEN ScanAttrChars(s, i + 1, lvl - 1)
    ELSE ScanAttrChars(s, i + 1, lvl)

\* the 'outer loop that collects the attribute block
RECURSIVE AttrLoop(_, _, _)
AttrLoop(items, attr_string, lvl) ==
    IF items = <<>>
    THEN [attr_string |-> attr_string, put_before |-> None, rest |-> <<>>]
    ELSE LET el == Head(items)
         IN  IF el.t = "Free"
             THEN LET sc == ScanAttrChars(el.v, 1, lvl)
                  IN  IF sc.at > 0
                      THEN [attr_string |-> attr_string \o SubSeq(el.v, 1, sc.at - 1),
                            put_before  |-> Some(SubSeq(el.v, sc.at + 1, Len(el.v))),
                            rest        |-> Tail(items)]
                      ELSE AttrLoop(Tail(items), attr_string \o el.v, sc.lvl)
             ELSE AttrLoop(Tail(items),
                           attr_string \o Concat(join(el, <<"[">>, <<"]">>)), lvl)

\* CommandHead taking the backend id from behind the @
CommandHeadBackendLast(first, v) ==
    LET spl1      == split_unescaped_string(first, "{", 2, TRUE)
        cmd_raw_1 == spl1[1]
        v1        == IF Len(spl1) > 1 THEN <<Free(<<"{">>), Free(spl1[2])>> \o v ELSE v
        spl2      == StrSplitn2Whitespace(cmd_raw_1)
        cmd_raw_2 == spl2[1]
        v2        == IF Len(spl2) > 1 THEN <<Free(spl2[2])>> \o v1 ELSE v1
        spl3      == StrSplitn2(cmd_raw_2, "@")
    IN  [cmd     |-> spl3[1],
         backend |-> IF Len(spl3) > 1 THEN Some(spl3[2]) ELSE None,
         v       |-> v2]

\* CommandHead splitting the head at its last @ (rsplitn(2, '@'))
CommandHeadSplitLast(first, v) ==
    LET spl1      == split_unescaped_string(first, "{", 2, TRUE)
        cmd_raw_1 == spl1[1]
        v1        == IF Len(spl1) > 1 THEN <<Free(<<"{">>), Free(spl1[2])>> \o v ELSE v
        spl2      == StrSplitn2Whitespace(cmd_raw_1)
        cmd_raw_2 == spl2[1]
        v2        == IF Len(spl2) > 1 THEN <<Free(spl2[2])>> \o v1 ELSE v1
        ats       == {k \in 1..Len(cmd_raw_2) : cmd_raw_2[k] = "@"}
        i         == IF ats = {} THEN 0 ELSE CHOOSE k \in ats : \A j \in ats : j <= k
    IN  [cmd     |-> SubSeq(cmd_raw_2, i + 1, Len(cmd_raw_2)),
         backend |-> IF i > 0 THEN Some(SubSeq(cmd_raw_2, 1, i - 1)) ELSE None,
         v       |-> v2]

\* CommandHead that does not put back an empty rest of the head
CommandHeadDroppingEmptyRest(first, v) ==
    LET spl1      == split_unescaped_string(first, "{", 2, TRUE)
        cmd_raw_1 == spl1[1]
        v1        == IF Len(spl1) > 1 THEN <<Free(<<"{">>), Free(spl1[2])>> \o v ELSE v
        spl2      == StrSplitn2Whitespace(cmd_raw_1)
        cmd_raw_2 == spl2[1]
        v2        == IF Len(spl2) > 1 /\ spl2[2] # <<>> THEN <<Free(spl2[2])>> \o v1 ELSE v1
        spl3      == StrSplitn2(cmd_raw_2, "@")
    IN  [cmd     |-> spl3[Len(spl3)],
         backend |-> IF Len(spl3) > 1 THEN Some(spl3[1]) ELSE None,
         v       |-> v2]

\* section: parse initial command.  v is the body after remove(0).
CommandHead(first, v) ==
    LET spl1      == split_unescaped_string(first, "{", 2, TRUE)
        cmd_raw_1 == spl1[1]
        v1        == IF Len(spl1) > 1 THEN <<Free(<<"{">>), Free(spl1[2])>> \o v ELSE v
        spl2      == StrSplitn2Whitespace(cmd_raw_1)
        cmd_raw_2 == spl2[1]
        v2        == IF Len(spl2) > 1 THEN <<Free(spl2[2])>> \o v1 ELSE v1
        spl3      == StrSplitn2(cmd_raw_2, "@")
    IN  [cmd     |-> spl3[Len(spl3)],
         backend |-> IF Len(spl3) > 1 THEN Some(spl3[1]) ELSE None,
         v       |-> v2]

\* section: parse attributes
CommandAttrs(v) ==
    IF v # <<>> /\ v[1].t = "Free" /\ v[1].v = <<"{">>
    THEN LET a == AttrLoop(v, <<>>, 0)
         IN  [attrs |-> parse_attrs(Tail(a.attr_string)),
              items |-> [k \in 1..Len(a.put_before) |-> Free(a.put_before[k])] \o a.rest]
    ELSE [attrs |-> <<>>, items |-> v]

\* section: parse arguments, up to the closure
RECURSIVE FlatSplitSemicolon(_)
FlatSplitSemicolon(items) ==
    IF items = <<>> THEN <<>>
    ELSE (IF Head(items).t = "Free"
          THEN LET ps == str_split_keep_sep(Head(items).v, ";")
               IN  [k \in 1..Len(ps) |-> Free(ps[k])]
          ELSE <<Head(items)>>)
         \o FlatSplitSemicolon(Tail(items))

\* CommandSegments with the separators kept (split(.., true))
CommandSegmentsKeepSep(items) ==
    LET flat == FlatSplitSemicolon(items)
    IN  SplitIter(flat, [k \in 1..Len(flat) |-> flat[k].t = "Free" /\ flat[k].v = <<";">>],
                  0, TRUE, 1, FALSE)

CommandSegments(items) ==
    LET flat == FlatSplitSemicolon(items)
    IN  SplitIter(flat, [k \in 1..Len(flat) |-> flat[k].t = "Free" /\ flat[k].v = <<";">>],
                  0, FALSE, 1, FALSE)

parse_command(v) ==
    IF v = <<>> THEN Err("EmptyBody")
    ELSE IF v[1].t = "Contained" THEN Err("CommandIsNotIdentifier")
    ELSE LET h == CommandHead(v[1].v, Tail(v))
             a == CommandAttrs(h.v)
         IN  [ok |-> TRUE, backend |-> h.backend, cmd |-> h.cmd,
              attrs |-> a.attrs, spl |-> CommandSegments(a.items)]

\* s.replace("\\ ", "")
RECURSIVE ReplaceEscapedSpace(_)
ReplaceEscapedSpace(s) ==
    IF Len(s) < 2 THEN s
    ELSE IF s[1] = BS /\ s[2] = " " THEN ReplaceEscapedSpace(SubSeq(s, 3, Len(s)))
    ELSE <<s[1]>> \o ReplaceEscapedSpace(Tail(s))

\* TrimSegment trimming both ends of the first text
TrimSegmentBothEnds(seg) ==
    IF seg # <<>> /\ seg[1].t = "Free"
    THEN [seg EXCEPT ![1] = Free(ReplaceEscapedSpace(Trim(seg[1].v)))]
    ELSE seg

\* the closure's first map over one segment
TrimSegment(seg) ==
    IF seg # <<>> /\ seg[1].t = "Free"
    THEN [seg EXCEPT ![1] = Free(ReplaceEscapedSpace(TrimStart(seg[1].v)))]
    ELSE seg

-----------------------------------------------------------------------------
(* pipeline::parse_step2 and the closure parse_command returns *)

\* one step of the collect: rest is the result for the later elements
CollectInto(r, rest) ==
    IF ~rest.ok THEN rest ELSE OkNodes(r.nodes \o rest.nodes)

\* collect::<Result<Vec<_>, _>>() followed by flatten: the first error, or
\* the concatenation of all node lists
RECURSIVE CollectResults(_)
CollectResults(rs) ==
    IF rs = <<>> THEN OkNodes(<<>>)
    ELSE IF ~Head(rs).ok THEN Head(rs)
    ELSE CollectInto(Head(rs), CollectResults(Tail(rs)))

RECURSIVE parse_step2(_)
RECURSIVE BuildArguments(_)
RECURSIVE ParseNode(_)

\* BuildArguments dropping a segment that fails instead of failing itself
BuildArgumentsLenient(spl) ==
    CollectResults(SelectSeq([k \in 1..Len(spl) |-> parse_step2(TrimSegment(spl[k]))],
                             LAMBDA r : r.ok))

\* .map(f).collect::<Result<Vec<_>, _>>()?.into_iter().flatten().collect()
BuildArguments(spl) ==
    CollectResults([k \in 1..Len(spl) |-> parse_step2(TrimSegment(spl[k]))])

\* Ok(ASTNode::CommandCall { .. }) once the arguments are built
CallWithArguments(f, args) ==
    IF ~args.ok THEN args
    ELSE OkNodes(<<CommandCall(f.backend, f.cmd, f.attrs, args.nodes)>>)

\* parse_command(v)? followed by the call of the closure it returned
CallOfParsed(f) ==
    IF ~f.ok THEN f ELSE CallWithArguments(f, BuildArguments(f.spl))

\* the closure of parse_step2's map
ParseNode(c) ==
    IF c.t = "Free" THEN OkNodes(<<Text(c.v)>>)
    ELSE CallOfParsed(parse_command(c.v))

parse_step2(v) ==
    CollectResults([k \in 1..Len(v) |-> ParseNode(v[k])])

-----------------------------------------------------------------------------
(* Results *)

NoResult == [tag |-> "None"]
Panicked(msg) == [tag |-> "Panic", msg |-> msg]
NoMetadata == [panic |-> FALSE, meta |-> {}]

-----------------------------------------------------------------------------
(* Actions of the preprocessor *)

Preprocess ==
    /\ pc = "start"
    /\ LET r == preprocess(text)
       IN  IF r.panic
           THEN /\ pc' = "panicked"
                /\ result' = Panicked("Found Metadata without value")
                /\ UNCHANGED <<meta, cont>>
           ELSE /\ pc' = "preprocessed"
                /\ meta' = r.meta
                /\ cont' = r.body
                /\ UNCHANGED result
    /\ UNCHANGED <<text, desugared, iter, stack, conts, md>>
    /\ UNCHANGED <<tplVars, beVars, splitVars>>

\* the caller hands the preprocessed body to get_metadata
GetMetadata ==
    /\ pc = "preprocessed"
    /\ md' = get_metadata(cont)
    /\ pc' = "remeta"
    /\ UNCHANGED <<text, meta, cont, desugared, iter, stack, conts, result>>
    /\ UNCHANGED <<tplVars, beVars, splitVars>>

-----------------------------------------------------------------------------
(* Actions of parse: desugaring, parse_step1 (containerize), parse_step2 *)

Desugar ==
    /\ pc = "preprocessed"
    /\ desugared' = desugar_slfcalls(cont)
    /\ pc' = "desugared"
    /\ UNCHANGED <<text, meta, cont, iter, stack, conts, result, md>>
    /\ UNCHANGED <<tplVars, beVars, splitVars>>

\* parse_step1 builds the escape-aware iterator; containerize pushes its
\* first, empty frame
Step1Begin ==
    /\ pc = "desugared"
    /\ iter' = auto_escape(desugared, BS)
    /\ stack' = << <<>> >>
    /\ pc' = "containerize"
    /\ UNCHANGED <<text, meta, cont, desugared, conts, result, md>>
    /\ UNCHANGED <<tplVars, beVars, splitVars>>

\* if left(&t) { stack.push(Vec::new()) }
ContainerizeLeft ==
    /\ pc = "containerize"
    /\ iter # <<>>
    /\ IsLeft(Head(iter))
    /\ stack' = Append(stack, <<>>)
    /\ iter' = Tail(iter)
    /\ UNCHANGED <<pc, text, meta, cont, desugared, conts, result, md>>
    /\ UNCHANGED <<tplVars, beVars, splitVars>>

\* else if right(&t): pop the frame and push it, Contained, on the frame
\* below; expect() panics when there is none
ContainerizeRight ==
    /\ pc = "containerize"
    /\ iter # <<>>
    /\ ~IsLeft(Head(iter))
    /\ IsRight(Head(iter))
    /\ LET v    == stack[Len(stack)]
           rest == SubSeq(stack, 1, Len(stack) - 1)
       IN  IF rest = <<>>
           THEN /\ pc' = "panicked"
                /\ result' = Panicked("Unmatched right delimeter")
                /\ stack' = rest
                /\ iter' = Tail(iter)
           ELSE /\ stack' = [rest EXCEPT ![Len(rest)] = Append(@, Contained(v))]
                /\ iter' = Tail(iter)
                /\ UNCHANGED <<pc, result>>
    /\ UNCHANGED <<text, meta, cont, desugared, conts, md>>
    /\ UNCHANGED <<tplVars, beVars, splitVars>>

\* else: the item joins the Free run at the end of the top frame
ContainerizeFree ==
    /\ pc = "containerize"
    /\ iter # <<>>
    /\ ~IsLeft(Head(iter))
    /\ ~IsRight(Head(iter))
    /\ stack' = [stack EXCEPT ![Len(stack)] = PushFree(@, Head(iter))]
    /\ iter' = Tail(iter)
    /\ UNCHANGED <<pc, text, meta, cont, desugared, conts, result, md>>
    /\ UNCHANGED <<tplVars, beVars, splitVars>>

\* after the loop: panic on an open frame, else parse_step1 maps the
\* items of the only frame back to Strings
ContainerizeEnd ==
    /\ pc = "containerize"
    /\ iter = <<>>
    /\ IF Len(stack) > 1
       THEN /\ pc' = "panicked"
            /\ result' = Panicked("Unmatched left delimeter")
            /\ UNCHANGED <<stack, conts>>
       ELSE /\ conts' = MapToString(stack[1])
            /\ stack' = <<>>
            /\ pc' = "step2"
            /\ UNCHANGED result
    /\ UNCHANGED <<text, meta, cont, desugared, iter, md>>
    /\ UNCHANGED <<tplVars, beVars, splitVars>>

\* parse_step2 and the Ok(AST { .. }) / Err of parse
Step2 ==
    /\ pc = "step2"
    /\ LET r == parse_step2(conts)
       IN  result' = IF r.ok
                     THEN [tag |-> "Ok", metadata |-> meta, nodes |-> r.nodes]
                     ELSE [tag |-> "Err", err |-> r.err]
    /\ pc' = "done"
    /\ UNCHANGED <<text, meta, cont, desugared, iter, stack, conts, md>>
    /\ UNCHANGED <<tplVars, beVars, splitVars>>

-----------------------------------------------------------------------------
(* template.rs: the strings the engine looks for *)

Perc_forfiles == <<"%", "f", "o", "r", "f", "i", "l", "e", "s">>
Perc_run == <<"%", "r", "u", "n">>
Perc_setext == <<"%", "s", "e", "t", "e", "x", "t">>
Perc_alt == <<"%", "a", "l", "t">>
Perc_perc == <<"%", "p", "e", "r", "c">>
Perc_brace == <<"%", "{">>
Perc_open == <<"%", "(">>
Perc_close == <<"%", ")">>

-----------------------------------------------------------------------------
(* std::string primitives of the engine; indices count from 0 as in the code *)

\* str::find: where pat first occurs, -1 for None
Find(s, pat) ==
    LET hits == {i \in 0..(Len(s) - Len(pat)) : SubSeq(s, i + 1, i + Len(pat)) = pat}
    IN  IF hits = {} THEN -1 ELSE CHOOSE i \in hits : \A j \in hits : i <= j

\* String::replace_range(i..end, r), for end <= s.len()
ReplaceRange(s, i, end, r) == SubSeq(s, 1, i) \o r \o SubSeq(s, end + 1, Len(s))

\* str::replace(pat, to): non-overlapping matches from the left, the
\* inserted text is not scanned again
RECURSIVE StrReplace(_, _, _)
StrReplace(s, pat, to) ==
    IF Len(s) < Len(pat) THEN s
    ELSE IF SubSeq(s, 1, Len(pat)) = pat
         THEN to \o StrReplace(SubSeq(s, Len(pat) + 1, Len(s)), pat, to)
         ELSE <<s[1]>> \o StrReplace(Tail(s), pat, to)

\* HashMap::get(..) with the None arm of the caller: the empty string
Lookup(m, k) ==
    IF \E p \in m : p[1] = k THEN (CHOOSE p \in m : p[1] = k)[2] ELSE <<>>

\* TakeWhileLevelGe0::next until None, emit_final = false: how many items
\* it yields.  incs[k] / decs[k] are is_inc / is_dec of the k-th item.
RECURSIVE TakeWhileLevelGe0(_, _, _, _)
TakeWhileLevelGe0(incs, decs, k, lvl) ==
    IF k > Len(incs) THEN k - 1
    ELSE IF incs[k] THEN TakeWhileLevelGe0(incs, decs, k + 1, lvl + 1)
    ELSE IF decs[k]
         THEN IF lvl = 0 THEN k - 1
              ELSE TakeWhileLevelGe0(incs, decs, k + 1, lvl - 1)
    ELSE TakeWhileLevelGe0(incs, decs, k + 1, lvl)

\* the escape-aware take_while_lvl_ge0 over s.chars(), collected back
TakeBalanced(s, open, close) ==
    LET items == auto_escape(s, BS)
        n     == TakeWhileLevelGe0(
                     [k \in 1..Len(items) |-> ~items[k].esc /\ items[k].c = open],
                     [k \in 1..Len(items) |-> ~items[k].esc /\ items[k].c = close],
                     1, 0)
    IN  reverse_auto_escape(SubSeq(items, 1, n))

-----------------------------------------------------------------------------
(* mod var *)

\* what one turn of a replace_all loop does to its String
TurnDone(s) == [tag |-> "Done", s |-> s]
TurnSpin(s) == [tag |-> "Spin", s |-> s]
TurnPanic(s) == [tag |-> "Panic", s |-> s]
TurnNext(s) == [tag |-> "Next", s |-> s]

\* VarReplace that stops before the closing } (end = i + arg.len() + 2)
VarReplaceKeepingBrace(s, vs, i, arg) ==
    IF i + Len(arg) + 2 > Len(s) THEN TurnPanic(s)
    ELSE TurnNext(ReplaceRange(s, i, i + Len(arg) + 2, Lookup(vs, arg)))

\* the turn for the %{ found at i: replace_range panics past the end
VarReplace(s, vs, i, arg) ==
    IF i + Len(arg) + 3 > Len(s) THEN TurnPanic(s)
    ELSE TurnNext(ReplaceRange(s, i, i + Len(arg) + 3, Lookup(vs, arg)))

VarAt(s, vs, i) ==
    IF i = -1 THEN TurnDone(s)
    ELSE IF i + 2 = Len(s) THEN TurnSpin(s)
    ELSE VarReplace(s, vs, i, TakeBalanced(SubSeq(s, i + 3, Len(s)), "{", "}"))

\* one turn of `while let Some(i) = s.find("%{")`
VarTurn(s, vs) == VarAt(s, vs, Find(s, Perc_brace))

\* var::replace_all run to its end: Done with the final String, Panic, or
\* Spin when the loop comes back to a String it has already had
RECURSIVE VarLoop(_, _, _)
RECURSIVE VarLoopOn(_, _, _)
VarLoopOn(t, vs, seen) ==
    IF t.tag # "Next" THEN t
    ELSE IF t.s \in seen THEN TurnSpin(t.s)
    ELSE VarLoop(t.s, vs, seen \cup {t.s})

VarLoop(s, vs, seen) == VarLoopOn(VarTurn(s, vs), vs, seen)

replace_all_vars(s, vs) == VarLoop(s, vs, {s})

-----------------------------------------------------------------------------
(* mod basic_command *)

\* parse_args(s), s not empty (s[1..] panics on the empty str)
parse_args(s) == TakeBalanced(Tail(s), "(", ")")

\* the call found by s.find(perc_cmd): its arguments and where it ends
BasicCallAt(s, perc_cmd, i, rest) ==
    IF rest = <<>> THEN [panic |-> TRUE, i |-> i, args |-> <<>>, end |-> 0]
    ELSE [panic |-> FALSE, i |-> i, args |-> parse_args(rest),
          end |-> i + Len(perc_cmd) + Len(parse_args(rest)) + 2]

BasicCall(s, perc_cmd) ==
    BasicCallAt(s, perc_cmd, Find(s, perc_cmd),
                SubSeq(s, Find(s, perc_cmd) + Len(perc_cmd) + 1, Len(s)))

\* the rest of the turn once process has returned r (Err(_) gives the
\* empty String)
BasicTurn(s, c, r) ==
    IF c.panic \/ c.end > Len(s) THEN TurnPanic(s)
    ELSE TurnNext(ReplaceRange(s, c.i, c.end, r))

\* the closure of %alt: the first piece that is not empty
RECURSIVE FirstNonEmpty(_)
FirstNonEmpty(pieces) ==
    IF pieces = <<>> THEN <<>>
    ELSE IF Head(pieces) # <<>> THEN Head(pieces)
    ELSE FirstNonEmpty(Tail(pieces))

alt(args) == FirstNonEmpty(split_unescaped_string(args, ":", 0, FALSE))

\* Path::with_extension for a relative path of one component
LastDot(name) ==
    LET dots == {k \in 2..Len(name) : name[k] = "."}
    IN  IF dots = {} THEN 0 ELSE CHOOSE k \in dots : \A j \in dots : j <= k

with_extension(file, ext) ==
    IF file \in {<<>>, <<".">>, <<".", ".">>} THEN file
    ELSE LET d    == LastDot(file)
             stem == IF d = 0 THEN file ELSE SubSeq(file, 1, d - 1)
         IN  IF ext = <<>> THEN stem ELSE stem \o <<".">> \o ext

\* the closure of %setext: Err gives the empty String
setext(args) ==
    LET spl == StrSplitn2(args, ":")
    IN  IF Len(spl) < 2 THEN <<>> ELSE with_extension(spl[2], spl[1])

-----------------------------------------------------------------------------
(* mod shell *)

RECURSIVE MatchesFrom(_, _, _, _)
MatchesFrom(s, pat, k, last_star) ==
    IF k > Len(pat) THEN last_star \/ s = <<>>
    ELSE IF pat[k] = "*" THEN MatchesFrom(s, pat, k + 1, TRUE)
    ELSE LET i == IndexOf(s, pat[k])
         IN  IF i = 0 THEN FALSE
             ELSE IF k = 1 /\ i # 1 THEN FALSE
             ELSE MatchesFrom(SubSeq(s, i + 1, Len(s)), pat, k + 1, FALSE)

matches_pattern(s, pat) == MatchesFrom(s, pat, 1, FALSE)

-----------------------------------------------------------------------------
(* The closure process hands to block_command::replace_all for %forfiles *)

Str_with == <<"w", "i", "t", "h">>
Str_in == <<"i", "n">>
Str_sort_key == <<"s", "o", "r", "t", "_", "k", "e", "y">>
Str_sort_order == <<"s", "o", "r", "t", "_", "o", "r", "d", "e", "r">>
Str_exclude_name == <<"e", "x", "c", "l", "u", "d", "e", "_", "n", "a", "m", "e">>
Str_include_name == <<"i", "n", "c", "l", "u", "d", "e", "_", "n", "a", "m", "e">>

DescendingWords ==
    {<<"-">>, <<"d", "e", "s", "c">>, <<"d", "e", "s", "c", "e", "n", "d", "i", "n", "g">>,
     <<"d", "e", "c", "r", "e", "a", "s", "i", "n", "g">>, <<"d", "e", "c">>}

NoOptions ==
    [var |-> None, path |-> None, exclude_by_name |-> <<>>, include_by_name |-> <<>>,
     sort_key |-> None, sort_descending |-> FALSE]

\* the match on verb
ApplyVerb(o, verb, object) ==
    CASE verb = Str_with -> [o EXCEPT !.var = Some(object)]
      [] verb = Str_in -> [o EXCEPT !.path = Some(object)]
      [] verb = Str_sort_key -> [o EXCEPT !.sort_key = Some(object)]
      [] verb = Str_sort_order ->
            [o EXCEPT !.sort_descending = @ \/ object \in DescendingWords]
      [] verb = Str_exclude_name ->
            [o EXCEPT !.exclude_by_name = @ \o split_unescaped_string(object, " ", 0, FALSE)]
      [] verb = Str_include_name ->
            [o EXCEPT !.include_by_name = @ \o split_unescaped_string(object, " ", 0, FALSE)]
      [] OTHER -> o

\* one arg of args.split(':'): arg.splitn(2, ' ')
ApplyArg(o, spl) == IF Len(spl) < 2 THEN o ELSE ApplyVerb(o, spl[1], spl[2])

RECURSIVE ForfilesOptions(_, _)
ForfilesOptions(args, o) ==
    IF args = <<>> THEN o
    ELSE ForfilesOptions(Tail(args), ApplyArg(o, StrSplitn2(Head(args), " ")))

\* "file is excluded or not included"
Skipped(filename, o) ==
    \/ \E k \in 1..Len(o.exclude_by_name) : matches_pattern(filename, o.exclude_by_name[k])
    \/ \A k \in 1..Len(o.include_by_name) : ~matches_pattern(filename, o.include_by_name[k])

\* HashMap::extend
RECURSIVE MapExtend(_, _)
MapExtend(m, more) ==
    IF more = {} THEN m
    ELSE LET p == CHOOSE q \in more : TRUE
         IN  MapExtend(MapInsert(m, p[1], p[2]), more \ {p})

\* FileVars in which the engine's vars override the file's
FileVarsBaseLast(vs, entry, o) ==
    IF o.var = None THEN MapExtend(entry.vars, vs)
    ELSE MapInsert(MapExtend(entry.vars, vs), o.var[1], entry.name)

\* hm: the engine's vars, the file's vars, the loop variable
FileVars(vs, entry, o) ==
    IF o.var = None THEN MapExtend(vs, entry.vars)
    ELSE MapInsert(MapExtend(vs, entry.vars), o.var[1], entry.name)

\* the pair pushed for one entry: body and sort key expanded with hm
ExpandEntry(hm, body, o) ==
    [body |-> replace_all_vars(body, hm),
     key  |-> IF o.sort_key = None THEN TurnDone(<<>>)
              ELSE replace_all_vars(o.sort_key[1], hm)]

\* byte order of the characters (quotes left out), for String::cmp
AsciiOrder ==
    <<TAB, LF, " ", "!", "#", "$", "%", "&", "(", ")", "*", "+", ",", "-",
      ".", "/", "0", "1", "2", "3", "4", "5", "6", "7", "8", "9", ":", ";", "<", "=",
      ">", "?", "@", "A", "B", "C", "D", "E", "F", "G", "H", "I", "J", "K", "L", "M",
      "N", "O", "P", "Q", "R", "S", "T", "U", "V", "W", "X", "Y", "Z", "[", BS, "]",
      "^", "_", "a", "b", "c", "d", "e", "f", "g", "h", "i", "j", "k", "l", "m",
      "n", "o", "p", "q", "r", "s", "t", "u", "v", "w", "x", "y", "z", "{", "|", "}",
      "~">>

CharCode(c) == CHOOSE k \in 1..Len(AsciiOrder) : AsciiOrder[k] = c

\* sl.cmp(&sr) = Less
RECURSIVE StrLess(_, _)
StrLess(a, b) ==
    IF b = <<>> THEN FALSE
    ELSE IF a = <<>> THEN TRUE
    ELSE IF Head(a) = Head(b) THEN StrLess(Tail(a), Tail(b))
    ELSE CharCode(Head(a)) < CharCode(Head(b))

\* the comparison of sort_by says that x goes before y
Before(x, y, descending) ==
    IF descending THEN StrLess(y.key.s, x.key.s) ELSE StrLess(x.key.s, y.key.s)

\* sort_by is stable: x, the later element, goes behind its equals
RECURSIVE InsertSorted(_, _, _)
InsertSorted(sorted, x, descending) ==
    IF sorted = <<>> THEN <<x>>
    ELSE IF Before(x, Head(sorted), descending) THEN <<x>> \o sorted
    ELSE <<Head(sorted)>> \o InsertSorted(Tail(sorted), x, descending)

RECURSIVE SortBy(_, _, _)
SortBy(es, sorted, descending) ==
    IF es = <<>> THEN sorted
    ELSE SortBy(Tail(es), InsertSorted(sorted, Head(es), descending), descending)

\* the entries of read_dir that pass the filter, expanded
ExpandedEntries(entries, vs, body, o) ==
    LET kept == SelectSeq(entries, LAMBDA e : ~Skipped(e.name, o))
    IN  [k \in 1..Len(kept) |-> ExpandEntry(FileVars(vs, kept[k], o), body, o)]

\* the end of the closure: sort, then join the bodies
JoinEntries(es, o) ==
    LET sorted == IF o.sort_key = None THEN es ELSE SortBy(es, <<>>, o.sort_descending)
    IN  TurnDone(Concat([k \in 1..Len(sorted) |-> sorted[k].body.s]))

\* the first element of ts that is no Done, 0 when there is none
FirstFailed(ts) ==
    LET bad == {k \in 1..Len(ts) : ts[k].tag # "Done"}
    IN  IF bad = {} THEN 0 ELSE CHOOSE k \in bad : \A j \in bad : k <= j

\* a var::replace_all inside the closure that panics or never returns ends
\* or hangs the closure: the bodies in the order of the entries, then the
\* keys, which sort_by expands only when it has two elements to compare
EntriesFailure(bodies, keys) ==
    IF FirstFailed(bodies) # 0 THEN bodies[FirstFailed(bodies)].tag
    ELSE IF Len(keys) >= 2 /\ FirstFailed(keys) # 0 THEN keys[FirstFailed(keys)].tag
    ELSE "Done"

EntriesOutcome(es, o) ==
    LET failure == EntriesFailure([k \in 1..Len(es) |-> es[k].body],
                                  [k \in 1..Len(es) |-> es[k].key])
    IN  IF failure # "Done" THEN [tag |-> failure, s |-> <<>>] ELSE JoinEntries(es, o)

\* the closure with its options parsed; d is what the file system holds.
\* No path and a failing read_dir are Err(..), which the caller turns into
\* the empty String.
ForfilesWith(o, body, vs, d) ==
    IF o.path = None THEN TurnDone(<<>>)
    ELSE IF o.path[1] # d.path THEN TurnDone(<<>>)
    ELSE EntriesOutcome(ExpandedEntries(d.entries, vs, body, o), o)

forfiles(args, body, vs, d) ==
    ForfilesWith(ForfilesOptions(StrSplit(args, ":"), NoOptions), body, vs, d)

-----------------------------------------------------------------------------
(* mod block_command *)

\* the body: windows(2) of the text behind %(, taken while the level of
\* %( and %) is not below 0, the first character of each window kept
BlockBody(tmp) ==
    LET n == TakeWhileLevelGe0(
                 [k \in 1..(Len(tmp) - 1) |-> SubSeq(tmp, k, k + 1) = Perc_open],
                 [k \in 1..(Len(tmp) - 1) |-> SubSeq(tmp, k, k + 1) = Perc_close],
                 1, 0)
    IN  SubSeq(tmp, 1, n)

\* the turn from `let body` on; r is what process returned
BlockReplace(s, i, last, body, r) ==
    IF r.tag # "Done" THEN [r EXCEPT !.s = s]
    ELSE IF last + Len(body) + 5 > Len(s) THEN TurnPanic(s)
    ELSE TurnNext(ReplaceRange(s, i, last + Len(body) + 5, r.s))

BlockWithBody(s, i, args, last, body, vs, d) ==
    BlockReplace(s, i, last, body, forfiles(args, body, vs, d))

\* the turn from `let last` on: the three `continue`s, then the body
BlockWithArgs(s, i, args, last, vs, d) ==
    IF last + 3 > Len(s) THEN TurnSpin(s)
    ELSE IF SubSeq(s, last + 2, last + 3) # Perc_open THEN TurnSpin(s)
    ELSE IF Len(s) = last + 3 THEN TurnSpin(s)
    ELSE BlockWithBody(s, i, args, last, BlockBody(SubSeq(s, last + 4, Len(s))), vs, d)

\* s.get(i + perc_cmd.len()..) is always Some; parse_args panics on ""
BlockAt(s, perc_cmd, i, tmp, vs, d) ==
    IF i = -1 THEN TurnDone(s)
    ELSE IF tmp = <<>> THEN TurnPanic(s)
    ELSE BlockWithArgs(s, i, parse_args(tmp),
                       i + Len(perc_cmd) + 1 + Len(parse_args(tmp)), vs, d)

\* one turn of `while let Some(i) = s.find(perc_cmd)`
BlockTurn(s, perc_cmd, vs, d) ==
    BlockAt(s, perc_cmd, Find(s, perc_cmd),
            SubSeq(s, Find(s, perc_cmd) + Len(perc_cmd) + 1, Len(s)), vs, d)

-----------------------------------------------------------------------------
(* TemplateEngine::run and the passes of process *)

NoDir == [path |-> <<>>, entries |-> <<>>]

EngineIdle ==
    /\ tstate = "idle"
    /\ template = <<>>
    /\ engine_vars = {}
    /\ dir = NoDir
    /\ tpl_res = <<>>
    /\ tick = 0

\* what the spawned command may write to its standard output (a command
\* that cannot be spawned gives Err, the empty String)
RunOutputs == {<<>>, <<"o">>, <<"%", "{", "x", "}">>}

\* run: process(self.template.clone(), ..) starts with `let mut res = s`
Run ==
    /\ tstate = "new"
    /\ tpl_res' = template
    /\ tstate' = "forfiles"
    /\ UNCHANGED <<template, engine_vars, dir, tick>>
    /\ UNCHANGED <<parseVars, beVars, splitVars>>

\* a turn of the loop of the running pass: the String is rewritten, or the
\* turn ends in `continue` without a change, or the call panics
Iterate(t) ==
    /\ tick' = 1 - tick
    /\ tpl_res' = t.s
    /\ tstate' = IF t.tag = "Panic" THEN "panicked" ELSE tstate
    /\ UNCHANGED <<template, engine_vars, dir>>
    /\ UNCHANGED <<parseVars, beVars, splitVars>>

\* s.find(..) is None: the next pass begins
PassEnds(next) ==
    /\ tstate' = next
    /\ UNCHANGED <<template, engine_vars, dir, tpl_res, tick>>
    /\ UNCHANGED <<parseVars, beVars, splitVars>>

ForfilesStep ==
    /\ tstate = "forfiles"
    /\ Find(tpl_res, Perc_forfiles) # -1
    /\ Iterate(BlockTurn(tpl_res, Perc_forfiles, engine_vars, dir))

\* ForfilesEnd going on to the %run pass, the variable pass left out
ForfilesEndSkippingVar ==
    /\ tstate = "forfiles"
    /\ Find(tpl_res, Perc_forfiles) = -1
    /\ PassEnds("run")

ForfilesEnd ==
    /\ tstate = "forfiles"
    /\ Find(tpl_res, Perc_forfiles) = -1
    /\ PassEnds("var")

VarStep ==
    /\ tstate = "var"
    /\ Find(tpl_res, Perc_brace) # -1
    /\ Iterate(VarTurn(tpl_res, engine_vars))

\* VarEnd that ends the pass while a %{ is left
VarEndEarly ==
    /\ tstate = "var"
    /\ PassEnds("run")

VarEnd ==
    /\ tstate = "var"
    /\ Find(tpl_res, Perc_brace) = -1
    /\ PassEnds("run")

\* the closure of %run hands the arguments to the command and returns
\* what the command wrote
RunStep ==
    /\ tstate = "run"
    /\ Find(tpl_res, Perc_run) # -1
    /\ \E out \in RunOutputs : Iterate(BasicTurn(tpl_res, BasicCall(tpl_res, Perc_run), out))

RunEnd ==
    /\ tstate = "run"
    /\ Find(tpl_res, Perc_run) = -1
    /\ PassEnds("setext")

SetextStep ==
    /\ tstate = "setext"
    /\ Find(tpl_res, Perc_setext) # -1
    /\ Iterate(BasicTurn(tpl_res, BasicCall(tpl_res, Perc_setext),
                         setext(BasicCall(tpl_res, Perc_setext).args)))

SetextEnd ==
    /\ tstate = "setext"
    /\ Find(tpl_res, Perc_setext) = -1
    /\ PassEnds("alt")

AltStep ==
    /\ tstate = "alt"
    /\ Find(tpl_res, Perc_alt) # -1
    /\ Iterate(BasicTurn(tpl_res, BasicCall(tpl_res, Perc_alt), alt(BasicCall(tpl_res, Perc_alt).args)))

AltEnd ==
    /\ tstate = "alt"
    /\ Find(tpl_res, Perc_alt) = -1
    /\ PassEnds("perc")

\* tpl_res.replace("%perc", "%") is what process returns
ReplacePerc ==
    /\ tstate = "perc"
    /\ tpl_res' = StrReplace(tpl_res, Perc_perc, <<"%">>)
    /\ tstate' = "returned"
    /\ UNCHANGED <<template, engine_vars, dir, tick>>
    /\ UNCHANGED <<parseVars, beVars, splitVars>>

-----------------------------------------------------------------------------
(* Backend::handle_node, called by compile_ast for every node of the AST *)

Str_html == <<"h", "t", "m", "l">>

backend_id == Str_html

BackendIdle ==
    /\ ast_nodes = <<>>
    /\ handled = 0
    /\ calls = <<>>
    /\ rendered = <<>>

\* handle_node hands a command to every backend
DispatchesAny(c) == TRUE

\* c.backend.is_none() || c.backend.as_deref() == Some(Self::backend_id())
Dispatches(c) == c.backend = None \/ c.backend = Some(backend_id)

\* what the implementation's emit_text returns for s
EmittedText(s) == [emitted |-> s]

\* what the implementation's run_command may return for c
CommandResults(c) == {None, Some([ran |-> c.cmd])}

\* ASTNode::Text(s) => self.emit_text(s)
HandleText ==
    /\ handled < Len(ast_nodes)
    /\ ast_nodes[handled + 1].type = "Text"
    /\ calls' = Append(calls, [fn |-> "emit_text", arg |-> ast_nodes[handled + 1].s,
                               ret |-> EmittedText(ast_nodes[handled + 1].s)])
    /\ rendered' = Append(rendered, Some(EmittedText(ast_nodes[handled + 1].s)))
    /\ handled' = handled + 1
    /\ UNCHANGED ast_nodes
    /\ UNCHANGED <<parseVars, tplVars, splitVars>>

\* ASTNode::CommandCall(c), the backend is this one: self.run_command(c)?
HandleOwnCommand ==
    /\ handled < Len(ast_nodes)
    /\ ast_nodes[handled + 1].type = "CommandCall"
    /\ Dispatches(ast_nodes[handled + 1])
    /\ \E r \in CommandResults(ast_nodes[handled + 1]) :
        /\ calls' = Append(calls, [fn |-> "run_command", arg |-> ast_nodes[handled + 1],
                                   ret |-> r])
        /\ rendered' = Append(rendered, r)
    /\ handled' = handled + 1
    /\ UNCHANGED ast_nodes
    /\ UNCHANGED <<parseVars, tplVars, splitVars>>

\* ASTNode::CommandCall(c) of another backend: return None
HandleForeignCommand ==
    /\ handled < Len(ast_nodes)
    /\ ast_nodes[handled + 1].type = "CommandCall"
    /\ ~Dispatches(ast_nodes[handled + 1])
    /\ rendered' = Append(rendered, None)
    /\ handled' = handled + 1
    /\ UNCHANGED <<ast_nodes, calls>>
    /\ UNCHANGED <<parseVars, tplVars, splitVars>>

-----------------------------------------------------------------------------
(* IterSplit::split / splitn, called on a sequence of items *)

SplitIdle ==
    /\ split_in = <<>>
    /\ split_keep = FALSE
    /\ split_max = 0
    /\ split_out = None

\* split_impl(max_len, is_sep, keep_sep) collected: SplitIter::next is
\* called until it returns None; the separator predicate is |c| c == ';'
Split ==
    /\ split_out = None
    /\ split_out' = Some(SplitIter(split_in, [k \in 1..Len(split_in) |-> split_in[k] = ";"],
                                   split_max, split_keep, 1, FALSE))
    /\ UNCHANGED <<split_in, split_keep, split_max>>
    /\ UNCHANGED <<parseVars, tplVars, beVars>>

-----------------------------------------------------------------------------
(* Specification of the preprocessor alone *)

PreAlphabet == {"!", "#", BS, LF, " ", "a"}

PreInputs == SeqsUpTo(PreAlphabet, MaxPreLen)

InitCommon ==
    /\ pc = "start"
    /\ meta = {}
    /\ cont = <<>>
    /\ desugared = <<>>
    /\ iter = <<>>
    /\ stack = <<>>
    /\ conts = <<>>
    /\ result = NoResult
    /\ md = NoMetadata

InitPre == text \in PreInputs /\ InitCommon /\ EngineIdle /\ BackendIdle /\ SplitIdle

NextPre == Preprocess \/ GetMetadata

SpecPre == InitPre /\ [][NextPre]_vars

-----------------------------------------------------------------------------
(* Inputs of parse *)

Str_cmd == <<"c", "m", "d">>
Str_be == <<"b", "e">>

\* every text of brackets, backslashes and a letter
BrAlphabet == {"[", "]", BS, "a"}
BrInputs == SeqsUpTo(BrAlphabet, MaxBrLen)

\* every text of brackets, a letter, a space and an argument separator
PlainAlphabet == {"[", "]", "c", " ", ";"}
PlainInputs == SeqsUpTo(PlainAlphabet, MaxPlainLen)

\* [head{k1=v1;...} a1;a2;...]: attrs is None or Some(list of pairs)
RenderAttrs(attrs) ==
    IF attrs = None THEN <<>>
    ELSE <<"{">>
         \o JoinWith([k \in 1..Len(attrs[1]) |-> attrs[1][k][1] \o <<"=">> \o attrs[1][k][2]],
                     <<";">>)
         \o <<"}">>

RenderCall(head, attrs, segs) ==
    <<"[">> \o head \o RenderAttrs(attrs)
    \o (IF segs = <<>> THEN <<>> ELSE <<" ">> \o JoinWith(segs, <<";">>))
    \o <<"]">>

Words == {<<"a">>, <<"b", "c">>}
ArgLists == SeqsUpTo(Words, MaxArgs)
ArgInputs == {RenderCall(Str_cmd, None, segs) : segs \in ArgLists}

AttrKeys == {<<"x">>, <<"y">>}
AttrValues == {<<"1">>, <<"2">>, <<>>}
AttrLists == SeqsUpTo(AttrKeys \X AttrValues, MaxAttrs)
AttrTails == {<<>>, << <<"a">> >>, << <<"a">>, <<"b", "c">> >>}
AttrInputs == {RenderCall(Str_cmd, Some(al), segs) : al \in AttrLists, segs \in AttrTails}

Names == {Str_cmd, Str_be}
HeadAttrs == {None, Some(<< <<(<<"x">>), (<<"1">>)>> >>)}
HeadTails == {<<>>, << <<"a">> >>}
QualifiedHead(b, c) == b \o <<"@">> \o c
HeadInputs ==
    {RenderCall(QualifiedHead(b, c), at, segs) :
        b \in Names, c \in Names, at \in HeadAttrs, segs \in HeadTails}
    \cup {RenderCall(c, at, segs) : c \in Names, at \in HeadAttrs, segs \in HeadTails}

\* a core wrapped in up to MaxDepth commands, as one of their arguments
Wrappers == {<< <<"[", "c", " ">>, <<"]">> >>,
             << <<"[", "c", " ", "a", ";">>, <<"]">> >>,
             << <<"[", "c", " ">>, <<";", "a", "]">> >>}
Cores == {<<"[", "]">>, <<"[", "[", "c", "]", "]">>, <<"[", "c", "]">>, <<"c">>}

RECURSIVE Wrap(_, _)
Wrap(ws, core) ==
    IF ws = <<>> THEN core
    ELSE Head(ws)[1] \o Wrap(Tail(ws), core) \o Head(ws)[2]

NestedInputs == {Wrap(ws, core) : ws \in SeqsUpTo(Wrappers, MaxDepth), core \in Cores}

TitleInput ==
    <<"!", " ", "t", "i", "t", "l", "e", " ", "M", "y", " ", "P", "a", "g", "e", LF,
      "H", "e", "l", "l", "o">>
MetaInputs ==
    {TitleInput, Tail(TitleInput),
     <<"!", "k", " ", "v", LF, ".", "c", "m", "d", " ", "a">>,
     <<"!", "k", LF, "a">>}

\* heads with two @
MultiAtInputs ==
    {RenderCall(QualifiedHead(p, QualifiedHead(q, r)), at, segs) :
        p \in Names, q \in Names, r \in Names, at \in HeadAttrs, segs \in HeadTails}

\* attribute blocks written entry by entry: blanks around key and value,
\* entries without =, values holding a further =
Entries ==
    {<<" ", "k", " ", "=", " ", "v", " ">>, <<"k", "=", "v">>, <<"x">>, <<>>,
     <<"k", "=">>, <<"k", "=", "a", "=", "b">>, <<" ", "k", "=", "v">>,
     <<"k", "=", "v", " ">>, <<"=", "v">>}
EntryLists == SeqsUpTo(Entries, MaxAttrs)
RenderEntries(es) == <<"[">> \o Str_cmd \o <<"{">> \o JoinWith(es, <<";">>) \o <<"}", "]">>
EntryInputs == {RenderEntries(es) : es \in EntryLists}

\* [cmd body]: the argument text is made of letters, separators,
\* backslashes, blanks and bracketed commands
SegAtoms == {<<"a">>, <<";">>, <<BS>>, <<" ">>, <<"[", "b", "]">>}
SegBodies == {Concat(as) : as \in SeqsUpTo(SegAtoms, MaxSegLen)}
RenderBody(body) == <<"[">> \o Str_cmd \o <<" ">> \o body \o <<"]">>
SegInputs == {RenderBody(body) : body \in SegBodies}

\* [cmd<blanks><text>{<inner>}<text>]: a brace block that whitespace
\* separates from the head
BraceBlanks == {<<" ">>, <<" ", " ">>, <<TAB>>}
BraceBefore == {<<>>, <<"a">>}
BraceInner == {<<"x", "=", "1">>, <<"x">>, <<>>}
BraceAfter == {<<>>, <<"a">>, <<" ", "a">>}
RenderBrace(ws, pre, inner, post) ==
    <<"[">> \o Str_cmd \o ws \o pre \o <<"{">> \o inner \o <<"}">> \o post \o <<"]">>
BraceInputs ==
    {RenderBrace(ws, pre, inner, post) :
        ws \in BraceBlanks, pre \in BraceBefore, inner \in BraceInner, post \in BraceAfter}

InputFamilies ==
    <<BrInputs, PlainInputs, ArgInputs, AttrInputs, HeadInputs, NestedInputs, MetaInputs,
      MultiAtInputs, EntryInputs, SegInputs, BraceInputs>>

-----------------------------------------------------------------------------
(* Specification of parse *)

Init ==
    /\ \E f \in 1..Len(InputFamilies) : text \in InputFamilies[f]
    /\ InitCommon
    /\ EngineIdle
    /\ BackendIdle
    /\ SplitIdle

Next ==
    \/ Preprocess
    \/ Desugar
    \/ Step1Begin
    \/ ContainerizeLeft
    \/ ContainerizeRight
    \/ ContainerizeFree
    \/ ContainerizeEnd
    \/ Step2

Spec == Init /\ [][Next]_vars

-----------------------------------------------------------------------------
(* Inputs of the template engine *)

MaxTplLen == 4
MaxPieces == 3
MaxPatterns == 2
MaxNameLen == 3
MaxPatLen == 2
MaxScopeRefs == 2

\* the engine's variable mappings: plain values, a value that refers to
\* another variable, a value that refers to itself
Vars_none == {}
Vars_x == {<<(<<"x">>), (<<"5">>)>>}
Vars_xy == {<<(<<"x">>), (<<"5">>)>>, <<(<<"y">>), (<<"7", " ", "8">>)>>}
Vars_chain == {<<(<<"x">>), (<<"%", "{", "y", "}">>)>>, <<(<<"y">>), (<<"7">>)>>}
Vars_self == {<<(<<"x">>), (<<"%", "{", "x", "}">>)>>}
Vars_empty == {<<(<<"x">>), (<<>>)>>, <<(<<"y">>), (<<"y">>)>>}
Vars_macro ==
    {<<(<<"x">>), (<<"%", "a", "l", "t", "(", ":", "b", ")", "%", "p", "e", "r", "c">>)>>,
     <<(<<"y">>), (<<"%", "{", "x", "}">>)>>}
VarMaps == {Vars_none, Vars_x, Vars_xy, Vars_chain, Vars_self, Vars_empty, Vars_macro}

\* the directory the templates loop over: read_dir's order, and what
\* get_vars_from_file returns for each entry
Dir_d ==
    [path |-> <<"d">>,
     entries |-> <<[name |-> <<"b", ".", "m", "d">>, vars |-> {<<(<<"t">>), (<<"B">>)>>}],
                   [name |-> <<"a", ".", "m", "d">>, vars |-> {<<(<<"t">>), (<<"A">>)>>, <<(<<"x">>), (<<"9">>)>>}]>>]
Dirs == {Dir_d}

\* every text over the characters of a variable reference
TplAlphabet == {"%", "{", "}", "x", BS}
SyntaxTemplates == SeqsUpTo(TplAlphabet, MaxTplLen)

\* texts made of literal pieces and references to x, y and the unbound z
Ref(name) == <<"%", "{">> \o name \o <<"}">>
RefNames == {<<"x">>, <<"y">>, <<"z">>}
Literals == {<<"a">>, <<"b", " ">>}
VarPieces == Literals \cup {Ref(n) : n \in RefNames}
PieceLists == SeqsUpTo(VarPieces, MaxPieces)
PieceTemplates == {Concat(ps) : ps \in PieceLists}

\* invocations without their closer: no ) or }, a trigger at the very end,
\* %forfiles without its %( or without its %)
IncompleteCalls ==
    {<<"%", "r", "u", "n", "(">>,
     <<"%", "r", "u", "n", "(", "a", "b">>,
     <<"%", "r", "u", "n">>,
     <<"%", "s", "e", "t", "e", "x", "t", "(">>,
     <<"%", "s", "e", "t", "e", "x", "t", "(", "a", ":", "b">>,
     <<"%", "s", "e", "t", "e", "x", "t">>,
     <<"%", "a", "l", "t", "(">>,
     <<"%", "a", "l", "t", "(", "a">>,
     <<"%", "a", "l", "t">>,
     <<"%", "{">>,
     <<"%", "{", "x">>,
     <<"%", "f", "o", "r", "f", "i", "l", "e", "s">>,
     <<"%", "f", "o", "r", "f", "i", "l", "e", "s", "(", "i", "n", " ", "d">>,
     <<"%", "f", "o", "r", "f", "i", "l", "e", "s", "(", "i", "n", " ", "d", ")">>,
     <<"%", "f", "o", "r", "f", "i", "l", "e", "s", "(", "i", "n", " ", "d", ")", "b">>,
     <<"%", "f", "o", "r", "f", "i", "l", "e", "s", "(", "i", "n", " ", "d", ")", "%", "(">>,
     <<"%", "f", "o", "r", "f", "i", "l", "e", "s", "(", "i", "n", " ", "d", ")", "%", "(", "a">>,
     <<"%", "f", "o", "r", "f", "i", "l", "e", "s", "(", "i", "n", " ", "d", ":", "i", "n", "c", "l", "u", "d", "e", "_", "n", "a", "m", "e", " ", "*", ")", "%", "(", "%", "{", "t", "}">>}

IncompleteTemplates == {p \o c : p \in {<<>>, <<"a">>}, c \in IncompleteCalls}

\* complete macros, alone and in a row
MacroTemplates ==
    {<<"%", "a", "l", "t", "(", "%", "{", "x", "}", ":", "b", ")">>,
     <<"%", "a", "l", "t", "(", "%", "{", "z", "}", ":", "b", ")">>,
     <<"%", "a", "l", "t", "(", ":", ")">>,
     <<"%", "a", "l", "t", "(", "a", BS, ":", "b", ":", "c", ")">>,
     <<"%", "s", "e", "t", "e", "x", "t", "(", "h", "t", "m", "l", ":", "%", "{", "x", "}", ".", "m", "d", ")">>,
     <<"%", "s", "e", "t", "e", "x", "t", "(", "m", "d", ")">>,
     <<"%", "p", "e", "r", "c", "{", "x", "}">>,
     <<"%", "p", "e", "r", "c", "p", "e", "r", "c">>,
     <<"%", "p", "e", "r", "c", "%", "p", "e", "r", "c">>,
     <<"%", "p", "e", "r", "c", "%", "{", "x", "}">>,
     <<"%", "r", "u", "n", "(", "l", "s", " ", "%", "{", "x", "}", ")">>,
     <<"%", "r", "u", "n", "(", "l", "s", ")", "%", "a", "l", "t", "(", "a", ")">>,
     <<"a", "%", "r", "u", "n", "(", "c", ")", "b">>,
     <<"%", "f", "o", "r", "f", "i", "l", "e", "s", "(", "i", "n", " ", "d", ":", "w", "i", "t", "h", " ", "f", ":", "i", "n", "c", "l", "u", "d", "e", "_", "n", "a", "m", "e", " ", "*", ")", "%", "(", "%", "{", "f", "}", ";", "%", ")", "%", "a", "l", "t", "(", "%", "{", "x", "}", ":", "b", ")", "%", "p", "e", "r", "c", "{", "x", "}">>,
     <<"%", "f", "o", "r", "f", "i", "l", "e", "s", "(", "i", "n", " ", "d", ":", "w", "i", "t", "h", " ", "f", ":", "i", "n", "c", "l", "u", "d", "e", "_", "n", "a", "m", "e", " ", "a", "*", ":", "s", "o", "r", "t", "_", "k", "e", "y", " ", "%", "{", "f", "}", ")", "%", "(", "<", "%", "{", "f", "}", "%", "{", "t", "}", ">", "%", ")">>,
     <<"%", "f", "o", "r", "f", "i", "l", "e", "s", "(", "i", "n", " ", "d", ":", "w", "i", "t", "h", " ", "f", ":", "i", "n", "c", "l", "u", "d", "e", "_", "n", "a", "m", "e", " ", "*", ":", "s", "o", "r", "t", "_", "k", "e", "y", " ", "%", "{", "f", "}", ":", "s", "o", "r", "t", "_", "o", "r", "d", "e", "r", " ", "d", "e", "s", "c", ")", "%", "(", "%", "{", "f", "}", " ", "%", ")">>,
     <<"%", "f", "o", "r", "f", "i", "l", "e", "s", "(", "i", "n", " ", "d", ":", "w", "i", "t", "h", " ", "x", ":", "i", "n", "c", "l", "u", "d", "e", "_", "n", "a", "m", "e", " ", "*", ":", "s", "o", "r", "t", "_", "k", "e", "y", " ", "%", "{", "t", "}", ")", "%", "(", "%", "{", "x", "}", "%", ")", "%", "{", "x", "}">>,
     <<"%", "f", "o", "r", "f", "i", "l", "e", "s", "(", "w", "i", "t", "h", " ", "f", ")", "%", "(", "a", "%", ")">>,
     <<"%", "f", "o", "r", "f", "i", "l", "e", "s", "(", "i", "n", " ", "e", ":", "i", "n", "c", "l", "u", "d", "e", "_", "n", "a", "m", "e", " ", "*", ")", "%", "(", "a", "%", ")">>,
     <<"%", "f", "o", "r", "f", "i", "l", "e", "s", "(", "i", "n", " ", "d", ")", "%", "(", "a", "%", ")">>,
     <<"%", "f", "o", "r", "f", "i", "l", "e", "s", "(", "i", "n", " ", "d", ":", "i", "n", "c", "l", "u", "d", "e", "_", "n", "a", "m", "e", " ", "*", ":", "e", "x", "c", "l", "u", "d", "e", "_", "n", "a", "m", "e", " ", "a", "*", ")", "%", "(", "%", "{", "t", "}", "%", "{", "x", "}", "%", ")">>,
     <<"%", "f", "o", "r", "f", "i", "l", "e", "s", "(", "i", "n", " ", "d", ":", "i", "n", "c", "l", "u", "d", "e", "_", "n", "a", "m", "e", " ", "*", ")", "%", "(", "a", "%", "(", "b", "%", ")", "c", "%", ")">>,
     <<"%", "f", "o", "r", "f", "i", "l", "e", "s", "(", "i", "n", " ", "d", ":", "i", "n", "c", "l", "u", "d", "e", "_", "n", "a", "m", "e", " ", "*", ")", "%", "(", "%", "{", "x", "%", ")">>}


\* %forfiles(in d:with f[:include_name p1 p2 ..][:exclude_name q1 q2 ..])%(%{f};%)
\* an empty list stands for an option that is not given
FilterPatterns == {<<"*">>, <<"a", "*">>, <<"c", "*">>}
PatternLists == SeqsUpTo(FilterPatterns, MaxPatterns)
Str_forfiles_in_d_with_f ==
    <<"%", "f", "o", "r", "f", "i", "l", "e", "s", "(", "i", "n", " ", "d", ":",
      "w", "i", "t", "h", " ", "f">>
Str_body_f == <<")", "%", "(", "%", "{", "f", "}", ";", "%", ")">>
RenderOption(verb, pats) ==
    IF pats = <<>> THEN <<>> ELSE <<":">> \o verb \o <<" ">> \o JoinWith(pats, <<" ">>)
FilterTemplate(inc, exc) ==
    Str_forfiles_in_d_with_f \o RenderOption(Str_include_name, inc)
    \o RenderOption(Str_exclude_name, exc) \o Str_body_f
FilterTemplates == {FilterTemplate(inc, exc) : inc \in PatternLists, exc \in PatternLists}

\* directories of one file, and loops that include by one pattern
MatchNames == SeqsUpTo({"a", "b"}, MaxNameLen) \ {<<>>}
MatchPatterns == SeqsUpTo({"a", "b", "*"}, MaxPatLen) \ {<<>>}
NameDirs == {[path |-> <<"d">>, entries |-> <<[name |-> n, vars |-> {}]>>] : n \in MatchNames}
MatchTemplate(pat) == FilterTemplate(<<pat>>, <<>>)
MatchTemplates == {MatchTemplate(pat) : pat \in MatchPatterns}

\* a directory whose first entry supplies x (also a base variable), u
\* (supplied by no other entry) and f (also the loop variable), and loops
\* over it whose body and tail refer to these variables
Dir_s ==
    [path |-> <<"d">>,
     entries |-> <<[name |-> <<"a">>,
                    vars |-> {<<(<<"x">>), (<<"1">>)>>, <<(<<"u">>), (<<"U">>)>>,
                              <<(<<"f">>), (<<"F">>)>>}],
                   [name |-> <<"b">>, vars |-> {<<(<<"y">>), (<<"2">>)>>}]>>]
ScopeNames == {<<"x">>, <<"y">>, <<"u">>, <<"f">>}
ScopeBodies == SeqsUpTo(ScopeNames, MaxScopeRefs)
ScopeTails == SeqsUpTo(ScopeNames, 1)
LoopVars == {None, Some(<<"f">>)}
RefsOf(names) == Concat([k \in 1..Len(names) |-> Ref(names[k]) \o <<",">>])
ScopeTemplate(lv, body, tail) ==
    <<"%", "f", "o", "r", "f", "i", "l", "e", "s", "(", "i", "n", " ", "d">>
    \o (IF lv = None THEN <<>> ELSE <<":">> \o Str_with \o <<" ">> \o lv[1])
    \o <<":">> \o Str_include_name \o <<" ", "*", ")", "%", "(">>
    \o RefsOf(body) \o <<"%", ")">> \o RefsOf(tail)
ScopeTemplates ==
    {ScopeTemplate(lv, body, tail) : lv \in LoopVars, body \in ScopeBodies, tail \in ScopeTails}

TemplateFamilies ==
    <<[templates |-> SyntaxTemplates, maps |-> VarMaps, dirs |-> Dirs],
      [templates |-> PieceTemplates, maps |-> VarMaps, dirs |-> Dirs],
      [templates |-> IncompleteTemplates, maps |-> {Vars_x}, dirs |-> Dirs],
      [templates |-> MacroTemplates, maps |-> {Vars_none, Vars_x, Vars_chain}, dirs |-> Dirs],
      [templates |-> FilterTemplates, maps |-> {Vars_none}, dirs |-> Dirs],
      [templates |-> MatchTemplates, maps |-> {Vars_none}, dirs |-> NameDirs],
      [templates |-> ScopeTemplates, maps |-> {Vars_none, Vars_xy}, dirs |-> {Dir_s}]>>

-----------------------------------------------------------------------------
(* Specification of the template engine *)

InitTpl ==
    /\ text = <<>>
    /\ InitCommon
    /\ BackendIdle
    /\ SplitIdle
    /\ tstate = "new"
    /\ \E f \in 1..Len(TemplateFamilies) :
        /\ template \in TemplateFamilies[f].templates
        /\ engine_vars \in TemplateFamilies[f].maps
        /\ dir \in TemplateFamilies[f].dirs
    /\ tpl_res = <<>>
    /\ tick = 0

NextTpl ==
    \/ Run
    \/ ForfilesStep
    \/ ForfilesEnd
    \/ VarStep
    \/ VarEnd
    \/ RunStep
    \/ RunEnd
    \/ SetextStep
    \/ SetextEnd
    \/ AltStep
    \/ AltEnd
    \/ ReplacePerc

SpecTpl == InitTpl /\ [][NextTpl]_vars

\* the states in which process has a step to take
Running == tstate \in {"new", "forfiles", "var", "run", "setext", "alt", "perc"}

\* a step of the thread that runs process: every step of NextTpl begins or
\* ends a pass (tstate changes) or is a turn of a loop (tick changes)
ThreadRuns ==
    /\ Running
    /\ tick' \in {0, 1}
    /\ tstate' \in {"forfiles", "var", "run", "setext", "alt", "perc", "returned",
                    "panicked"}
    /\ <<tick', tstate'>> # <<tick, tstate>>

\* the calling thread keeps running the loop it is in
SpecTplFair == SpecTpl /\ WF_<<tick, tstate>>(ThreadRuns)

-----------------------------------------------------------------------------
(* Inputs and specification of the node dispatch *)

MaxNodes == 3

Backends == {None, Some(Str_html), Some(Str_be), Some(<<>>)}
DispatchNodes ==
    {Text(<<"a">>), Text(<<>>)}
    \cup {CommandCall(b, c, <<>>, <<>>) : b \in Backends, c \in Names}
Documents == SeqsUpTo(DispatchNodes, MaxNodes)

InitBackend ==
    /\ text = <<>>
    /\ InitCommon
    /\ EngineIdle
    /\ SplitIdle
    /\ ast_nodes \in Documents
    /\ handled = 0
    /\ calls = <<>>
    /\ rendered = <<>>

NextBackend == HandleText \/ HandleOwnCommand \/ HandleForeignCommand

SpecBackend == InitBackend /\ [][NextBackend]_vars

-----------------------------------------------------------------------------
(* Inputs and specification of the splitter *)

MaxSplitLen == 5

SplitInputs == SeqsUpTo({"a", "b", ";"}, MaxSplitLen)

InitSplit ==
    /\ text = <<>>
    /\ InitCommon
    /\ EngineIdle
    /\ BackendIdle
    /\ split_in \in SplitInputs
    /\ split_keep \in BOOLEAN
    /\ split_max \in {0, 2}
    /\ split_out = None

NextSplit == Split

SpecSplit == InitSplit /\ [][NextSplit]_vars

-----------------------------------------------------------------------------
(* Properties of the containerizer *)

Opens(items, n) == Cardinality({i \in 1..n : IsLeft(items[i])})
Closes(items, n) == Cardinality({i \in 1..n : IsRight(items[i])})

\* some prefix holds more unescaped ] than [
CloseExceeds(items) == \E n \in 1..Len(items) : Closes(items, n) > Opens(items, n)

\* no such prefix, and the whole input holds more unescaped [ than ]
OpenExceeds(items) ==
    /\ ~CloseExceeds(items)
    /\ Opens(items, Len(items)) > Closes(items, Len(items))

Finished == pc \in {"done", "panicked"}

\* C1: when parse has ended, an input with a prefix holding more unescaped
\* ] than [ gave the error value UnmatchedCloseDelimiter, and an input that
\* ends with more unescaped [ than ] gave the error value
\* UnmatchedOpenDelimiter; neither aborted the call.
UnbalancedIsTypedError ==
    Finished =>
        LET items == auto_escape(desugared, BS)
        IN  /\ CloseExceeds(items) =>
                result = [tag |-> "Err", err |-> "UnmatchedCloseDelimiter"]
            /\ OpenExceeds(items) =>
                result = [tag |-> "Err", err |-> "UnmatchedOpenDelimiter"]

\* C2: once containerize has returned (the brackets were balanced), joining
\* every element of parse_step1's result with "[" and "]" and concatenating
\* the pieces gives back the text parse_step1 was given, backslashes and
\* empty bracket pairs included.
ContainerizeJoinRoundTrip ==
    pc \in {"step2", "done"} =>
        Concat(JoinAll(conts, <<"[">>, <<"]">>)) = desugared

\* the round trip of a text with an escaped character and an empty pair
RoundTripWitness ==
    /\ pc = "step2"
    /\ Contains(desugared, BS)
    /\ \E i \in 1..(Len(conts)) : conts[i] = Contained(<<>>)
    /\ Concat(JoinAll(conts, <<"[">>, <<"]">>)) = desugared

-----------------------------------------------------------------------------
(* Properties of parse_command *)

OkDocument(metadata, nodes) == [tag |-> "Ok", metadata |-> metadata, nodes |-> nodes]

Texts(segs) == [k \in 1..Len(segs) |-> Text(segs[k])]

\* C3: parse of [cmd a1;...;an] (n = 0: [cmd]) with plain non-empty
\* segments returns exactly one node, the CommandCall cmd without backend
\* and attributes whose arguments are Text(a1), ..., Text(an).
PlainArgumentsParsed ==
    pc = "done" =>
        \A segs \in ArgLists :
            text = RenderCall(Str_cmd, None, segs) =>
                result = OkDocument({}, <<CommandCall(None, Str_cmd, <<>>, Texts(segs))>>)

PlainArgumentsWitness ==
    /\ pc = "done"
    /\ \E segs \in ArgLists :
        /\ Len(segs) = 3
        /\ text = RenderCall(Str_cmd, None, segs)
        /\ result.tag = "Ok"
        /\ Len(result.nodes[1].arguments) = 3

BackendQualifierParsed ==
    pc = "done" =>
        \A c \in Names, at \in HeadAttrs, segs \in HeadTails :
            /\ \A b \in Names :
                text = RenderCall(QualifiedHead(b, c), at, segs) =>
                    /\ result.tag = "Ok"
                    /\ Len(result.nodes) = 1
                    /\ result.nodes[1].type = "CommandCall"
                    /\ result.nodes[1].backend = Some(b)
                    /\ result.nodes[1].cmd = c
            /\ text = RenderCall(c, at, segs) =>
                    /\ result.tag = "Ok"
                    /\ Len(result.nodes) = 1
                    /\ result.nodes[1].type = "CommandCall"
                    /\ result.nodes[1].backend = None
                    /\ result.nodes[1].cmd = c

\* [be@cmd a] has been parsed
BackendQualifierWitness ==
    /\ pc = "done"
    /\ text = RenderCall(QualifiedHead(Str_be, Str_cmd), None, << <<"a">> >>)
    /\ result.tag = "Ok"
    /\ result.nodes[1].backend = Some(Str_be)

Str_title == <<"t", "i", "t", "l", "e">>
Str_MyPage == <<"M", "y", " ", "P", "a", "g", "e">>
Str_Hello == <<"H", "e", "l", "l", "o">>

\* C6 as stated: parse of "! title My Page\nHello" returns the metadata
\* title -> My Page and the nodes [Text("Hello")].
TitleExampleAsStated ==
    (pc = "done" /\ text = TitleInput) =>
        result = OkDocument({<<Str_title, Str_MyPage>>}, <<Text(Str_Hello)>>)

\* C6 amended: parse of "! title My Page\nHello" returns metadata holding
\* exactly the entry "" -> "title My Page" (the key is the text between !
\* and the first whitespace, here empty) and the nodes [Text("Hello")]; the
\* metadata line leaves no blank line or newline in the body.
TitleExampleParsed ==
    (pc = "done" /\ text = TitleInput) =>
        /\ result = OkDocument({<<(<<>>), Str_title \o <<" ">> \o Str_MyPage>>},
                               <<Text(Str_Hello)>>)
        /\ cont = Str_Hello

TitleExampleWitness ==
    /\ pc = "done"
    /\ text = TitleInput
    /\ result.tag = "Ok"
    /\ result.metadata # {}

\* the scanned input holds an empty bracket pair / a bracket body that
\* starts with a bracket
HasEmptyBody(items) ==
    \E i \in 1..(Len(items) - 1) : IsLeft(items[i]) /\ IsRight(items[i + 1])
HasBracketHead(items) ==
    \E i \in 1..(Len(items) - 1) : IsLeft(items[i]) /\ IsLeft(items[i + 1])

\* C10: for a balanced input without attribute blocks, an empty bracket
\* pair or a bracket body starting with a bracket, at top level or nested
\* in the arguments of commands, makes parse return Err and no Document:
\* Err(EmptyBody) when only empty pairs occur, Err(CommandIsNotIdentifier)
\* when only bracket-headed bodies occur.
BracketErrorsPropagate ==
    (pc = "done" /\ ~Contains(desugared, "{")) =>
        LET items == auto_escape(desugared, BS)
        IN  /\ (HasEmptyBody(items) \/ HasBracketHead(items)) => result.tag = "Err"
            /\ (HasEmptyBody(items) /\ ~HasBracketHead(items)) =>
                   result = [tag |-> "Err", err |-> "EmptyBody"]
            /\ (HasBracketHead(items) /\ ~HasEmptyBody(items)) =>
                   result = [tag |-> "Err", err |-> "CommandIsNotIdentifier"]

\* an empty pair two commands deep has made parse fail
NestedErrorWitness ==
    /\ pc = "done"
    /\ result = [tag |-> "Err", err |-> "EmptyBody"]
    /\ LET items == auto_escape(desugared, BS)
       IN  \E i \in 1..(Len(items) - 1) :
            /\ IsLeft(items[i]) /\ IsRight(items[i + 1])
            /\ Opens(items, i - 1) - Closes(items, i - 1) >= 2

-----------------------------------------------------------------------------
(* Properties of the preprocessor *)

\* the lines the preprocessor scans
ScannedLines(s) == StrSplit(ReplaceEscapedLF(s), LF)

IsUnescapedHash(line, i) == line[i] = "#" /\ (i = 1 \/ line[i - 1] # BS)
IsEscapedHash(line, i) == line[i] = "#" /\ i > 1 /\ line[i - 1] = BS

HasUnescapedHash(line) == \E i \in 1..Len(line) : IsUnescapedHash(line, i)

\* the text of the line before its first unescaped #, the whole line when
\* it has none
BeforeComment(line) ==
    IF HasUnescapedHash(line)
    THEN LET i == CHOOSE k \in 1..Len(line) :
                     /\ IsUnescapedHash(line, k)
                     /\ \A j \in 1..(k - 1) : ~IsUnescapedHash(line, j)
         IN  SubSeq(line, 1, i - 1)
    ELSE line

\* the line without the backslashes that escape a #
RECURSIVE WithoutHashEscapes(_)
WithoutHashEscapes(line) ==
    IF Len(line) < 2 THEN line
    ELSE IF line[1] = BS /\ line[2] = "#" THEN <<"#">> \o WithoutHashEscapes(SubSeq(line, 3, Len(line)))
    ELSE <<line[1]>> \o WithoutHashEscapes(Tail(line))

FirstHashEscaped(line) ==
    \E i \in 1..Len(line) :
        IsEscapedHash(line, i) /\ \A j \in 1..(i - 1) : line[j] # "#"

NoMetadataLine(ls) == \A k \in 1..Len(ls) : ~StartsWith(ls[k], "!")

\* C7: in a text without metadata lines whose # lines each hold an
\* unescaped # after some text, the body is the lines in order, each cut
\* before its first unescaped # and otherwise verbatim.
CommentTruncatesLine ==
    pc = "preprocessed" =>
        LET ls == ScannedLines(text)
        IN  (/\ NoMetadataLine(ls)
             /\ \E k \in 1..Len(ls) : HasUnescapedHash(ls[k])
             /\ \A k \in 1..Len(ls) :
                    Contains(ls[k], "#") =>
                        HasUnescapedHash(ls[k]) /\ BeforeComment(ls[k]) # <<>>)
            => cont = JoinWith([k \in 1..Len(ls) |-> BeforeComment(ls[k])], <<LF>>)

\* C8: in a text without metadata lines whose # lines each have an escaped
\* first #, every escaped # stays in the body with the text after it, up
\* to the first unescaped # of its line (the escaping backslash kept or
\* resolved).
EscapedHashKept ==
    pc = "preprocessed" =>
        LET ls == ScannedLines(text)
            kept == [k \in 1..Len(ls) |-> BeforeComment(ls[k])]
        IN  (/\ NoMetadataLine(ls)
             /\ \E k \in 1..Len(ls) : FirstHashEscaped(ls[k])
             /\ \A k \in 1..Len(ls) : Contains(ls[k], "#") => FirstHashEscaped(ls[k]))
            => \/ cont = JoinWith(kept, <<LF>>)
               \/ cont = JoinWith([k \in 1..Len(ls) |-> WithoutHashEscapes(kept[k])], <<LF>>)

\* C9: get_metadata on the body the preprocessor returned succeeds and
\* returns the empty mapping.
MetadataStrippingIdempotent ==
    pc = "remeta" => md = NoMetadata

\* a text with a metadata line and a comment went through both runs
IdempotenceWitness ==
    /\ pc = "remeta"
    /\ meta # {}
    /\ Contains(text, "#")
    /\ cont # <<>>
    /\ md = NoMetadata

-----------------------------------------------------------------------------
(* Properties of metadata lines, command names and escapes *)

\* a line starting with ! that has no whitespace, or nothing but whitespace
\* behind its first whitespace
MalformedMetadata(line) ==
    /\ StartsWith(line, "!")
    /\ LET ws == {k \in 1..Len(line) : IsWhitespace(line[k])}
       IN  \/ ws = {}
           \/ \E i \in ws :
                /\ \A j \in ws : i <= j
                /\ \A j \in (i + 1)..Len(line) : IsWhitespace(line[j])

\* C11: once the preprocessor has ended on a text with a malformed metadata
\* line (no whitespace after the key, or only whitespace after it), the
\* call returned the error value MalformedMetadataLine and was not aborted.
MalformedMetadataIsTypedError ==
    LET ls == ScannedLines(text)
    IN  (pc # "start" /\ \E k \in 1..Len(ls) : MalformedMetadata(ls[k])) =>
            /\ pc # "panicked"
            /\ result = [tag |-> "Err", err |-> "MalformedMetadataLine"]

\* every CommandCall of the node list, at any depth, has a name
RECURSIVE AllNamed(_)
AllNamed(nodes) ==
    \A k \in 1..Len(nodes) :
        nodes[k].type = "CommandCall" =>
            nodes[k].cmd # <<>> /\ AllNamed(nodes[k].arguments)

\* C12: when parse returns Ok, every CommandCall of the Document, at any
\* nesting depth, has a non-empty command name.
CommandNamesNonEmpty ==
    (pc = "done" /\ result.tag = "Ok") => AllNamed(result.nodes)

\* an escape the language treats specially: \<SPACE>, \<LF>, \#
SpecialEscape(it) == it.esc /\ it.c \in {" ", LF, "#"}

\* C13: for a text without unescaped brackets and without special escapes,
\* parse returns the single Text node holding the text with every escaped
\* \x delivered as x alone, the backslash removed.
EscapesResolvedInText ==
    pc = "done" =>
        LET items == auto_escape(desugared, BS)
        IN  (/\ items # <<>>
             /\ \A k \in 1..Len(items) :
                    ~IsLeft(items[k]) /\ ~IsRight(items[k]) /\ ~SpecialEscape(items[k]))
            => /\ result.tag = "Ok"
               /\ result.nodes = <<Text(DropEscapes(items))>>

-----------------------------------------------------------------------------
(* Properties of the command head and of attribute entries *)

\* C19 as stated: a head p@q@r is split at its last @, the part behind it
\* (r) being the backend id and the part before it (p@q) the command name.
MultiAtSplitAsStated ==
    pc = "done" =>
        \A p \in Names, q \in Names, r \in Names, at \in HeadAttrs, segs \in HeadTails :
            text = RenderCall(QualifiedHead(p, QualifiedHead(q, r)), at, segs) =>
                /\ result.tag = "Ok"
                /\ result.nodes[1].backend = Some(r)
                /\ result.nodes[1].cmd = QualifiedHead(p, q)

\* C19 amended: a head p@q@r is split at its first @; the part before it
\* (p) is the backend id and everything behind it (q@r) the command name.
MultiAtSplitAtFirst ==
    pc = "done" =>
        \A p \in Names, q \in Names, r \in Names, at \in HeadAttrs, segs \in HeadTails :
            text = RenderCall(QualifiedHead(p, QualifiedHead(q, r)), at, segs) =>
                /\ result.tag = "Ok"
                /\ Len(result.nodes) = 1
                /\ result.nodes[1].type = "CommandCall"
                /\ result.nodes[1].backend = Some(p)
                /\ result.nodes[1].cmd = QualifiedHead(q, r)

\* [be@cmd@be a] has been parsed
MultiAtWitness ==
    /\ pc = "done"
    /\ text = RenderCall(QualifiedHead(Str_be, QualifiedHead(Str_cmd, Str_be)),
                         None, << <<"a">> >>)
    /\ result.tag = "Ok"
    /\ result.nodes[1].cmd = QualifiedHead(Str_cmd, Str_be)

\* the pairs the entries stand for: entries without = give none, the others
\* the text before the first = and the text behind it, both trimmed
TrimmedPairs(es) ==
    LET kept == SelectSeq(es, LAMBDA e : Contains(e, "="))
    IN  [k \in 1..Len(kept) |->
            <<Trim(SubSeq(kept[k], 1, IndexOf(kept[k], "=") - 1)),
              Trim(SubSeq(kept[k], IndexOf(kept[k], "=") + 1, Len(kept[k])))>>]

\* C20: parse of [cmd{e1;...;en}] never fails and returns as attributes, in
\* order, one pair for every entry holding a =: the text before its first =
\* and the text behind it, both without leading and trailing whitespace.
AttributeEntriesTrimmed ==
    pc = "done" =>
        \A es \in EntryLists :
            text = RenderEntries(es) =>
                /\ result.tag = "Ok"
                /\ result.nodes[1].attributes = TrimmedPairs(es)

-----------------------------------------------------------------------------
(* Properties of the template engine *)

\* the name a reference piece refers to
RefName(p) == SubSeq(p, 3, Len(p) - 1)

\* the value m binds to name, the empty string when it binds none
ValueOf(m, name) ==
    IF \E p \in m : p[1] = name THEN (CHOOSE p \in m : p[1] = name)[2] ELSE <<>>

\* the pieces with every reference replaced by the value of its name
Substituted(ps, m) ==
    Concat([k \in 1..Len(ps) |->
               IF ps[k] \in Literals THEN ps[k] ELSE ValueOf(m, RefName(ps[k]))])

\* no value of the mapping holds a %
PlainValues(m) == \A p \in m : ~Contains(p[2], "%")

\* C14: when the variable pass has returned for a template of literal text
\* and references %{name}, under a mapping whose values hold no %, the text
\* is the template with every reference replaced by the value bound to its
\* name, an unbound name by the empty string, the literal text unchanged.
VariablesSubstituted ==
    (tstate = "run" /\ PlainValues(engine_vars)) =>
        \A ps \in PieceLists :
            template = Concat(ps) => tpl_res = Substituted(ps, engine_vars)

\* a%{x}%{z} with x -> 5 and z unbound has become a5
VariablesWitness ==
    /\ tstate = "run"
    /\ engine_vars = Vars_xy
    /\ template = Concat(<< <<"a">>, Ref(<<"x">>), Ref(<<"z">>) >>)
    /\ tpl_res = <<"a", "5">>

\* C15: a template that holds an incomplete macro or variable reference
\* does not make the expansion panic, and the text returned holds the
\* incomplete invocation unchanged.
IncompleteLeftUnchanged ==
    template \in IncompleteTemplates =>
        /\ tstate # "panicked"
        /\ tstate = "returned" => tpl_res = template

\* C16: TemplateEngine::run eventually returns (or at least ends), for
\* every template and mapping: no pass loops for ever.
EngineTerminates == <>(tstate \in {"returned", "panicked"})

PassRank(st) ==
    CASE st = "new" -> 0
      [] st = "forfiles" -> 1
      [] st = "var" -> 2
      [] st = "run" -> 3
      [] st = "setext" -> 4
      [] st = "alt" -> 5
      [] st = "perc" -> 6
      [] OTHER -> 7

\* a step of process stays in its pass, ends the call, or goes on to the
\* pass that follows when no trigger of the current pass is left
PassStep ==
    /\ tstate' # tstate =>
           \/ tstate' = "panicked"
           \/ PassRank(tstate') = PassRank(tstate) + 1
    /\ (tstate = "forfiles" /\ tstate' = "var") => Find(tpl_res, Perc_forfiles) = -1
    /\ (tstate = "var" /\ tstate' = "run") => Find(tpl_res, Perc_brace) = -1
    /\ (tstate = "run" /\ tstate' = "setext") => Find(tpl_res, Perc_run) = -1
    /\ (tstate = "setext" /\ tstate' = "alt") => Find(tpl_res, Perc_setext) = -1
    /\ (tstate = "alt" /\ tstate' = "perc") => Find(tpl_res, Perc_alt) = -1

Tpl_alt == <<"%", "a", "l", "t", "(", "%", "{", "x", "}", ":", "b", ")">>
Tpl_perc == <<"%", "p", "e", "r", "c", "{", "x", "}">>
Tpl_all ==
    <<"%", "f", "o", "r", "f", "i", "l", "e", "s", "(", "i", "n", " ", "d", ":", "w", "i", "t", "h", " ", "f", ":", "i", "n", "c", "l", "u", "d", "e", "_", "n", "a", "m", "e", " ", "*", ")", "%", "(", "%", "{", "f", "}", ";", "%", ")", "%", "a", "l", "t", "(", "%", "{", "x", "}", ":", "b", ")", "%", "p", "e", "r", "c", "{", "x", "}">>
Tpl_loop ==
    <<"%", "f", "o", "r", "f", "i", "l", "e", "s", "(", "i", "n", " ", "d", ":", "w", "i", "t", "h", " ", "x", ":", "i", "n", "c", "l", "u", "d", "e", "_", "n", "a", "m", "e", " ", "*", ":", "s", "o", "r", "t", "_", "k", "e", "y", " ", "%", "{", "t", "}", ")", "%", "(", "%", "{", "x", "}", "%", ")", "%", "{", "x", "}">>

\* what the order of the passes means for the text returned
PassExamples ==
    (tstate = "returned" /\ engine_vars = Vars_x) =>
        /\ template = Tpl_alt => tpl_res = <<"5">>
        /\ template = Tpl_perc => tpl_res = <<"%", "{", "x", "}">>
        /\ template = Tpl_all =>
               tpl_res = <<"b", ".", "m", "d", ";", "a", ".", "m", "d", ";", "5",
                           "%", "{", "x", "}">>
        /\ template = Tpl_loop =>
               tpl_res = <<"a", ".", "m", "d", "b", ".", "m", "d", "5">>

\* C18: process runs the passes %forfiles, %{var}, %run, %setext, %alt,
\* %perc in this order, each to its end before the next begins; so a %{x}
\* in the arguments of %alt is substituted before %alt is evaluated, a
\* %forfiles body gets its per-file variables before the top-level variable
\* pass, and the % that %perc leaves is not read as the start of a %{x}.
PassOrdering == [][PassStep]_vars /\ [](PassExamples)

\* a template with a loop, a variable, %alt and %perc has been expanded
PassOrderingWitness ==
    /\ tstate = "returned"
    /\ engine_vars = Vars_x
    /\ template = Tpl_all
    /\ tpl_res # template

-----------------------------------------------------------------------------
(* Properties of the node dispatch *)

\* the command is for this backend: no backend given, or this one
ForThisBackend(c) == c.backend \in {None, Some(Str_html)}

\* how many calls of emit_text and run_command the nodes ns are to cause
RECURSIVE CallsFor(_)
CallsFor(ns) ==
    IF ns = <<>> THEN 0
    ELSE CallsFor(Tail(ns))
         + (IF Head(ns).type = "CommandCall" /\ ~ForThisBackend(Head(ns)) THEN 0 ELSE 1)

\* C17: for every node handed to handle_node so far: a Text(s) caused one
\* call emit_text(s) and handle_node returned its result; a CommandCall
\* without backend or with backend_id() caused one call run_command(c) and
\* handle_node returned its result; a CommandCall of another backend caused
\* no call and handle_node returned nothing.
NodeDispatched ==
    /\ Len(rendered) = handled
    /\ Len(calls) = CallsFor(SubSeq(ast_nodes, 1, handled))
    /\ \A k \in 1..handled :
        LET n == ast_nodes[k]
            j == CallsFor(SubSeq(ast_nodes, 1, k))
        IN  CASE n.type = "Text" ->
                    /\ calls[j].fn = "emit_text"
                    /\ calls[j].arg = n.s
                    /\ rendered[k] = Some(calls[j].ret)
              [] n.type = "CommandCall" /\ ForThisBackend(n) ->
                    /\ calls[j].fn = "run_command"
                    /\ calls[j].arg = n
                    /\ rendered[k] = calls[j].ret
              [] OTHER -> rendered[k] = None

\* a text, a command of this backend and a command of another one have
\* been handled
NodeDispatchWitness ==
    /\ handled = 3
    /\ ast_nodes = <<Text(<<"a">>), CommandCall(Some(Str_html), Str_cmd, <<>>, <<>>),
                     CommandCall(Some(Str_be), Str_cmd, <<>>, <<>>)>>
    /\ Len(calls) = 2
    /\ rendered[3] = None

-----------------------------------------------------------------------------
(* Properties of the argument segments *)

\* the items of s up to its end, every backslash taking the next character
\* with it: [k] is TRUE when s[k] is escaped by the character before it
RECURSIVE EscapedAt(_, _)
EscapedAt(s, k) ==
    IF k <= 1 THEN FALSE
    ELSE s[k - 1] = BS /\ ~EscapedAt(s, k - 1)

\* the number of ; of s that no backslash escapes
UnescapedSeparators(s) ==
    Cardinality({k \in 1..Len(s) : s[k] = ";" /\ ~EscapedAt(s, k)})

\* the argument text has only letters, ; and backslashes, and no piece
\* between two unescaped ; (or before the first, behind the last) is empty
PlainSeparated(body) ==
    /\ body # <<>>
    /\ \A k \in 1..Len(body) : body[k] \in {"a", ";", BS}
    /\ \A k \in 1..Len(body) :
        (body[k] = ";" /\ ~EscapedAt(body, k)) =>
            /\ k > 1 /\ k < Len(body)
            /\ ~(body[k + 1] = ";")
    /\ ~(body[Len(body)] = BS /\ ~EscapedAt(body, Len(body)))

\* C21: the arguments of [cmd body] are split only at the ; that no
\* backslash precedes: parse returns one argument text for every piece
\* between unescaped ;, so [cmd a\;b] has one argument and [cmd a\;b;c] two.
EscapedSeparatorKept ==
    pc = "done" =>
        \A body \in SegBodies :
            (PlainSeparated(body) /\ text = RenderBody(body)) =>
                /\ result.tag = "Ok"
                /\ Len(result.nodes[1].arguments) = UnescapedSeparators(body) + 1

\* s without its leading whitespace
RECURSIVE DropLeadingWhitespace(_)
DropLeadingWhitespace(s) ==
    IF s # <<>> /\ IsWhitespace(s[1]) THEN DropLeadingWhitespace(Tail(s)) ELSE s

\* s without every backslash that a space follows and without that space
DeleteEscapedSpaces(s) ==
    LET gone(k) == \/ k < Len(s) /\ s[k] = BS /\ s[k + 1] = " "
                   \/ k > 1 /\ s[k] = " " /\ s[k - 1] = BS
        kept    == {k \in 1..Len(s) : ~gone(k)}
        nth(n)  == CHOOSE k \in kept : Cardinality({j \in kept : j < k}) = n - 1
    IN  [n \in 1..Cardinality(kept) |-> s[nth(n)]]

\* what the recursive parser is to get for the segment seg
HandedOver(seg) ==
    IF seg # <<>> /\ seg[1].t = "Free"
    THEN <<Free(DeleteEscapedSpaces(DropLeadingWhitespace(seg[1].v)))>> \o Tail(seg)
    ELSE seg

\* the nodes of all segments, each parsed from what is handed over
ArgumentsOf(spl) ==
    CollectResults([k \in 1..Len(spl) |-> parse_step2(HandedOver(spl[k]))])

\* C22: the arguments parse returns for [cmd body] are those the recursive
\* parser makes of the segments, the first text of a segment first stripped
\* of its leading whitespace and then of every backslash-space, a segment
\* that begins with a bracketed command as it is.
LeadingWhitespaceStripped ==
    (pc = "done" /\ text \in SegInputs /\ result.tag = "Ok") =>
        \A k \in 1..Len(conts) :
            conts[k].t = "Contained" =>
                OkNodes(result.nodes[k].arguments)
                    = ArgumentsOf(parse_command(conts[k].v).spl)

\* [cmd  \  a] has been parsed: the blank before the backslash is
\* stripped, the blank behind the deleted backslash-space is kept
LeadingWhitespaceWitness ==
    /\ pc = "done"
    /\ text = RenderBody(<<" ", BS, " ", " ">>)
    /\ result.tag = "Ok"
    /\ result.nodes[1].arguments = <<Text(<<" ">>)>>

\* [cmd [b] a] has been parsed: the segment begins with a command and the
\* text behind it keeps its blank
BracketFirstWitness ==
    /\ pc = "done"
    /\ text = RenderBody(<<"[", "b", "]", " ", "a">>)
    /\ result.tag = "Ok"
    /\ Len(result.nodes[1].arguments) = 2
    /\ result.nodes[1].arguments[2] = Text(<<" ", "a">>)

-----------------------------------------------------------------------------
(* Properties of the %forfiles filter *)

\* glob matching with * as the only wildcard
RECURSIVE GlobMatch(_, _)
GlobMatch(s, p) ==
    IF p = <<>> THEN s = <<>>
    ELSE IF p[1] = "*"
    THEN \E k \in 0..Len(s) : GlobMatch(SubSeq(s, k + 1, Len(s)), Tail(p))
    ELSE s # <<>> /\ s[1] = p[1] /\ GlobMatch(Tail(s), Tail(p))

\* the entry is to be expanded: no exclude pattern matches, and an include
\* pattern matches when there is one
Expanded(name, inc, exc) ==
    /\ \A k \in 1..Len(exc) : ~GlobMatch(name, exc[k])
    /\ inc = <<>> \/ \E k \in 1..Len(inc) : GlobMatch(name, inc[k])

\* name; for every entry that is to be expanded, in the order of read_dir
RECURSIVE ExpandedNames(_, _, _)
ExpandedNames(entries, inc, exc) ==
    IF entries = <<>> THEN <<>>
    ELSE (IF Expanded(Head(entries).name, inc, exc)
          THEN Head(entries).name \o <<";">> ELSE <<>>)
         \o ExpandedNames(Tail(entries), inc, exc)

\* C23: %forfiles expands an entry if and only if its name matches no
\* exclude_name pattern and, when include_name patterns are given, at least
\* one of them; without include_name every entry that no exclude pattern
\* matches is expanded.
FilterAsStated ==
    (tstate = "returned" /\ dir = Dir_d) =>
        \A inc \in PatternLists, exc \in PatternLists :
            template = FilterTemplate(inc, exc) =>
                tpl_res = ExpandedNames(dir.entries, inc, exc)

\* C24: matches_pattern(name, pat) is true exactly when name matches pat
\* as a glob with * as the only wildcard: the loop that includes by the one
\* pattern pat expands the one file of the directory if and only if its
\* name matches the glob.
PatternIsGlob ==
    (tstate = "returned" /\ dir \in NameDirs) =>
        \A pat \in MatchPatterns :
            template = MatchTemplate(pat) =>
                (tpl_res # <<>>) = GlobMatch(dir.entries[1].name, pat)

-----------------------------------------------------------------------------
(* Properties of the splitter *)

\* C25: the splitter returns no sub-sequence for the empty input and the
\* input itself, as the only sub-sequence, for an input without separator;
\* with keep_sep the sub-sequences put together give back the input, and
\* (without max_len) they are in turn a segment without separator and a
\* separator on its own.
SplitterContract ==
    split_out # None =>
        LET out == split_out[1]
        IN  /\ split_in = <<>> => out = <<>>
            /\ (split_in # <<>> /\ ~Contains(split_in, ";")) => out = <<split_in>>
            /\ split_keep => Concat(out) = split_in
            /\ (split_keep /\ split_max = 0) =>
                   \A k \in 1..Len(out) :
                       IF k % 2 = 1 THEN ~Contains(out[k], ";") ELSE out[k] = <<";">>

\* a;;b has been split into a, ;, the empty segment, ; and b
SplitterWitness ==
    /\ split_in = <<"a", ";", ";", "b">>
    /\ split_keep
    /\ split_max = 0
    /\ split_out = Some(<< <<"a">>, <<";">>, <<>>, <<";">>, <<"b">> >>)

-----------------------------------------------------------------------------
(* Properties of the escape-aware scanner and of the tree *)

\* the characters the items stand for: indicator and character for an
\* escaped one, the character for any other
RECURSIVE Unscanned(_)
Unscanned(items) ==
    IF items = <<>> THEN <<>>
    ELSE (IF Head(items).esc THEN <<BS, Head(items).c>> ELSE <<Head(items).c>>)
         \o Unscanned(Tail(items))

\* C26: the items parse_step1 gets from the scanner: an unflagged item is
\* the indicator only as the last item (an indicator that a character
\* follows is consumed and flags that character, the indicator included),
\* and writing indicator + c for every flagged item and c for every other
\* gives back the scanned text.
ScannerContract ==
    (pc = "containerize" /\ stack = << <<>> >>) =>
        /\ \A k \in 1..Len(iter) :
               (~iter[k].esc /\ iter[k].c = BS) => k = Len(iter)
        /\ Unscanned(iter) = desugared

\* \\\[a\ has been scanned: an escaped indicator, an escaped bracket, a
\* plain character and the indicator at the end
ScannerWitness ==
    /\ pc = "containerize"
    /\ stack = << <<>> >>
    /\ desugared = <<BS, BS, BS, "[", "a", BS>>
    /\ iter = <<Item(TRUE, BS), Item(TRUE, "["), Item(FALSE, "a"), Item(FALSE, BS)>>

\* the unescaped brackets of s
IsOpenAt(s, k) == s[k] = "[" /\ ~EscapedAt(s, k)
IsCloseAt(s, k) == s[k] = "]" /\ ~EscapedAt(s, k)

\* how many brackets are open before position k of s
OpenBefore(s, k) ==
    Cardinality({j \in 1..(k - 1) : IsOpenAt(s, j)})
    - Cardinality({j \in 1..(k - 1) : IsCloseAt(s, j)})

\* the depths of the opening brackets of s, in the order of the text
RECURSIVE OpenDepths(_, _)
OpenDepths(s, k) ==
    IF k > Len(s) THEN <<>>
    ELSE (IF IsOpenAt(s, k) THEN <<OpenBefore(s, k)>> ELSE <<>>) \o OpenDepths(s, k + 1)

\* the depths of the Contained elements of the tree, parents first
RECURSIVE TreeDepths(_, _)
TreeDepths(v, d) ==
    IF v = <<>> THEN <<>>
    ELSE (IF Head(v).t = "Contained" THEN <<d>> \o TreeDepths(Head(v).v, d + 1) ELSE <<>>)
         \o TreeDepths(Tail(v), d)

\* no level has two Free elements side by side or an empty Free run
RECURSIVE FreeRunsWhole(_)
FreeRunsWhole(v) ==
    /\ \A k \in 1..Len(v) :
        IF v[k].t = "Free" THEN v[k].v # <<>> ELSE FreeRunsWhole(v[k].v)
    /\ \A k \in 1..(Len(v) - 1) : ~(v[k].t = "Free" /\ v[k + 1].t = "Free")

\* C27: when parse_step1 has returned, the tree has one Contained element
\* for every unescaped opening bracket of the text, at the depth of that
\* bracket, and at every level the free items between two Contained
\* elements are one Free run that is not empty.
TreeShape ==
    pc \in {"step2", "done"} =>
        /\ TreeDepths(conts, 0) = OpenDepths(desugared, 1)
        /\ FreeRunsWhole(conts)

\* [[a]a] has been containerized
TreeShapeWitness ==
    /\ pc = "step2"
    /\ desugared = <<"[", "[", "a", "]", "a", "]">>
    /\ TreeDepths(conts, 0) = <<0, 1>>
    /\ Len(conts) = 1
    /\ Len(conts[1].v) = 2

-----------------------------------------------------------------------------
(* Properties of the per-file variables of %forfiles *)

Bound(m, name) == \E p \in m : p[1] = name

\* the value of name while the body is expanded for entry: the file name
\* for the loop variable, else what the lookup for this entry supplies,
\* else the engine's value, else the empty string
PerFileValue(base, entry, lv, name) ==
    IF lv = Some(name) THEN entry.name
    ELSE IF Bound(entry.vars, name) THEN ValueOf(entry.vars, name)
    ELSE ValueOf(base, name)

\* the references name, written out with the values val gives
Written(names, val(_)) == Concat([k \in 1..Len(names) |-> val(names[k]) \o <<",">>])

\* the loop written out: the body once for every entry, then the tail
RECURSIVE LoopWritten(_, _, _, _)
LoopWritten(entries, base, lv, body) ==
    IF entries = <<>> THEN <<>>
    ELSE Written(body, LAMBDA n : PerFileValue(base, Head(entries), lv, n))
         \o LoopWritten(Tail(entries), base, lv, body)

\* the loop and its tail are written out as the per-file values say
PerFileExpansion ==
    (tstate = "returned" /\ dir = Dir_s) =>
        \A lv \in LoopVars, body \in ScopeBodies, tail \in ScopeTails :
            template = ScopeTemplate(lv, body, tail) =>
                tpl_res = LoopWritten(dir.entries, engine_vars, lv, body)
                          \o Written(tail, LAMBDA n : ValueOf(engine_vars, n))

\* C28: the body of a %forfiles loop is expanded for every entry with the
\* engine's variables, overridden by the variables looked up for that entry,
\* overridden by the loop variable; what the lookup supplied for an earlier
\* entry is gone for the later one, the text behind the loop is expanded
\* with the engine's variables, and no step of run changes the engine's
\* mapping.
PerFileVariables == [](PerFileExpansion) /\ [][engine_vars' = engine_vars]_vars

\* with f, body %{x},%{u}, and tail %{u}: the first entry has x = 1 and
\* u = U, the second the engine's x = 5 and no u, the tail no u
PerFileWitness ==
    /\ tstate = "returned"
    /\ dir = Dir_s
    /\ engine_vars = Vars_xy
    /\ template = ScopeTemplate(Some(<<"f">>), << <<"x">>, <<"u">> >>, << <<"u">> >>)
    /\ tpl_res = <<"1", ",", "U", ",", "5", ",", ",", ",">>

-----------------------------------------------------------------------------
(* Properties of the attribute block, continued *)

\* the texts of the nodes, put together; nodes holds Text nodes only
TextOf(nodes) == Concat([k \in 1..Len(nodes) |-> nodes[k].s])

\* C29: when whitespace stands between the command head and the first {,
\* the command has no attributes and the brace text, { and } included, is
\* among its argument text: parse of [cmd<blanks>pre{inner}post] returns the
\* command cmd without attributes whose arguments are text nodes that spell
\* pre{inner}post.
DetachedBraceIsArgument ==
    pc = "done" =>
        \A ws \in BraceBlanks, pre \in BraceBefore, inner \in BraceInner, post \in BraceAfter :
            text = RenderBrace(ws, pre, inner, post) =>
                /\ result.tag = "Ok"
                /\ Len(result.nodes) = 1
                /\ result.nodes[1].type = "CommandCall"
                /\ result.nodes[1].cmd = Str_cmd
                /\ result.nodes[1].attributes = <<>>
                /\ \A k \in 1..Len(result.nodes[1].arguments) :
                       result.nodes[1].arguments[k].type = "Text"
                /\ TextOf(result.nodes[1].arguments)
                       = pre \o <<"{">> \o inner \o <<"}">> \o post

\* [cmd {x=1} a] has been parsed
DetachedBraceWitness ==
    /\ pc = "done"
    /\ text = RenderBrace(<<" ">>, <<>>, <<"x", "=", "1">>, <<" ", "a">>)
    /\ result.tag = "Ok"
    /\ result.nodes[1].attributes = <<>>
    /\ Len(result.nodes[1].arguments) = 2

-----------------------------------------------------------------------------
(* Properties of the variable pass, continued *)

\* the variable pass returns only with a buffer that holds no %{
VarPassReturn == (tstate = "var" /\ tstate' = "run") => Find(tpl_res', Perc_brace) = -1

\* the values of Vars_chain and Vars_macro, evaluated to the end
Vars_chain_evaluated == {<<(<<"x">>), (<<"7">>)>>, <<(<<"y">>), (<<"7">>)>>}
Vars_macro_evaluated == {<<(<<"x">>), (<<"b", "%">>)>>, <<(<<"y">>), (<<"b", "%">>)>>}

\* a value that refers to another variable stands for that variable's
\* value, and the macros of a value are evaluated by the later passes
ValuesRescanned ==
    tstate = "returned" =>
        \A ps \in PieceLists :
            template = Concat(ps) =>
                /\ engine_vars = Vars_chain => tpl_res = Substituted(ps, Vars_chain_evaluated)
                /\ engine_vars = Vars_macro => tpl_res = Substituted(ps, Vars_macro_evaluated)

\* C30: whenever var::replace_all returns its buffer holds no %{: the text
\* a value brings in is scanned again, so a value %{y} ends as y's value,
\* and %alt(..) and %perc brought in by a value are evaluated by the passes
\* that follow.
SubstitutedTextRescanned == [][VarPassReturn]_vars /\ [](ValuesRescanned)

\* %{y}%{x} with y -> %{x} and x -> %alt(:b)%perc has been expanded
RescanWitness ==
    /\ tstate = "returned"
    /\ engine_vars = Vars_macro
    /\ template = Concat(<<Ref(<<"y">>), Ref(<<"x">>)>>)
    /\ tpl_res = <<"b", "%", "b", "%">>

====
